---- MODULE Spec2Model ----
(***************************************************************************)
(* Challenge-response authentication of psz-sketch: the two server         *)
(* endpoints (POST /api/challenge, POST /api/authenticate), the two        *)
(* challenge stores of the repository, the server crypto helpers, the      *)
(* session manager and the client's authenticate() flow.                   *)
(*                                                                         *)
(* Every `await` of a handler is a point where another handler, a timer    *)
(* callback or the clock may run; the code between two awaits is one       *)
(* action.  A clock read (Date.now()) inside an action may observe a later *)
(* instant than the previous read of the same action.                      *)
(***************************************************************************)
EXTENDS Integers, Sequences, FiniteSets, TLC

\* ------------------------------------------------------------------ bounds
\* Requests (challenge or authenticate) the server receives in one run.
MaxReq == 3
\* Times the clock jumps between two steps in one run.
MaxTicks == 1
\* Calls of getOrCreateKey() on one device profile in one run.
MaxCalls == 3
\* Tokens generateJWT signs outside the handler in one run.
MaxTokens == 2
\* Calls of verifyJWT in one run.
MaxVerify == 2
\* Calls of authenticatedFetch in one run.
MaxFetch == 2
\* Calls of getUserSession in one run.
MaxReads == 2
\* Requests to the character endpoints in one run.
MaxCharReq == 2
\* Calls of connectToDatabase in one run.
MaxConnects == 3

\* ------------------------------------------------------- program constants
\* expiresIn of a stored challenge, in milliseconds.
ChallengeTTL == 120000
\* Lifetime of a token, in seconds.
JwtLifetime == 3600
\* Default lifetime of a server session, in seconds.
SessionLifetime == 3600
\* Bytes of the digest kept for the fingerprint.
FingerprintBytes == 30
\* Milliseconds in a second (Date.now() / 1000, expiresInSeconds * 1000).
MsPerSecond == 1000

\* Amounts by which the clock jumps: one millisecond, the rest of a second,
\* a whole challenge lifetime, and one millisecond more than that.
TickSteps == {1, MsPerSecond - 1, ChallengeTTL, ChallengeTTL + 1}

\* Optional values: undefined / null is <<>>, a value v is <<v>>.
None == <<>>
Some(v) == <<v>>
IsSome(o) == o # <<>>
Val(o) == o[1]

\* ---------------------------------------------------------------- base64
\* Texts are sequences of one-character strings, buffers sequences of bytes.
B64Alphabet ==
  << "A","B","C","D","E","F","G","H","I","J","K","L","M","N","O","P",
     "Q","R","S","T","U","V","W","X","Y","Z","a","b","c","d","e","f",
     "g","h","i","j","k","l","m","n","o","p","q","r","s","t","u","v",
     "w","x","y","z","0","1","2","3","4","5","6","7","8","9","+","/" >>

B64Char(i) == B64Alphabet[i + 1]

B64Index(c) == (CHOOSE i \in 1..64 : B64Alphabet[i] = c) - 1

IsB64Char(c) == \E i \in 1..64 : B64Alphabet[i] = c

\* Standard base64 with "=" padding: btoa and Buffer.toString('base64').
RECURSIVE Base64Encode(_)
Base64Encode(bytes) ==
  IF Len(bytes) = 0 THEN <<>>
  ELSE IF Len(bytes) = 1 THEN
    << B64Char(bytes[1] \div 4), B64Char((bytes[1] % 4) * 16), "=", "=" >>
  ELSE IF Len(bytes) = 2 THEN
    << B64Char(bytes[1] \div 4),
       B64Char((bytes[1] % 4) * 16 + bytes[2] \div 16),
       B64Char((bytes[2] % 16) * 4), "=" >>
  ELSE
    << B64Char(bytes[1] \div 4),
       B64Char((bytes[1] % 4) * 16 + bytes[2] \div 16),
       B64Char((bytes[2] % 16) * 4 + bytes[3] \div 64),
       B64Char(bytes[3] % 64) >>
    \o Base64Encode(SubSeq(bytes, 4, Len(bytes)))

\* The sextets of a text up to its first "=", characters outside the
\* alphabet skipped (Buffer.from(text, 'base64') is lenient).
RECURSIVE B64Sextets(_)
B64Sextets(text) ==
  IF Len(text) = 0 \/ text[1] = "=" THEN <<>>
  ELSE IF IsB64Char(text[1])
       THEN <<B64Index(text[1])>> \o B64Sextets(Tail(text))
       ELSE B64Sextets(Tail(text))

RECURSIVE SextetsToBytes(_)
SextetsToBytes(s) ==
  IF Len(s) < 2 THEN <<>>
  ELSE IF Len(s) = 2 THEN << s[1] * 4 + s[2] \div 16 >>
  ELSE IF Len(s) = 3 THEN
    << s[1] * 4 + s[2] \div 16, (s[2] % 16) * 16 + s[3] \div 4 >>
  ELSE
    << s[1] * 4 + s[2] \div 16, (s[2] % 16) * 16 + s[3] \div 4,
       (s[3] % 4) * 64 + s[4] >>
    \o SextetsToBytes(SubSeq(s, 5, Len(s)))

\* base64ToArrayBuffer: decode, then copy the bytes one by one.
Base64ToArrayBuffer(text) == SextetsToBytes(B64Sextets(text))

\* arrayBufferToBase64 of the client (btoa over the bytes).
ArrayBufferToBase64Url(bytes) ==
  [ i \in 1..Len(Base64Encode(bytes)) |->
      LET c == Base64Encode(bytes)[i]
      IN IF c = "+" THEN "-" ELSE IF c = "/" THEN "_" ELSE c ]

ArrayBufferToBase64(bytes) == Base64Encode(bytes)

\* ------------------------------------------------------------ key material
\* Key pairs are numbered; a key's SPKI export is a short byte string that
\* ends in the key's number.
KeyIds == {1, 2}

ExportSpki(k) == <<48, 89, 4, k>>

\* SHA-256, tabulated on the encodings the model uses.
Sha256(bytes) ==
  CASE bytes = <<48, 89, 4, 1>> ->
         << 193, 210, 8, 56, 120, 58, 44, 245, 152, 163, 233, 139, 190, 192,
            200, 80, 184, 54, 226, 11, 229, 80, 199, 152, 241, 135, 2, 207,
            37, 224, 146, 188 >>
    [] bytes = <<48, 89, 4, 2>> ->
         << 165, 187, 225, 241, 120, 204, 40, 176, 185, 138, 251, 252, 244,
            215, 231, 246, 132, 39, 224, 126, 220, 131, 218, 248, 134, 114,
            106, 166, 199, 211, 86, 113 >>
    [] bytes = <<48, 89, 4, 3>> ->
         << 157, 206, 75, 63, 86, 247, 204, 50, 7, 46, 124, 25, 92, 111, 6,
            68, 93, 99, 153, 209, 192, 149, 153, 63, 213, 185, 138, 114, 124,
            37, 174, 20 >>
    [] OTHER ->
         << 227, 176, 196, 66, 152, 252, 28, 20, 154, 251, 244, 200, 153,
            111, 185, 36, 39, 174, 65, 228, 100, 155, 147, 76, 164, 149, 153,
            27, 120, 82, 184, 85 >>

\* Uint8Array.slice(0, n)
SliceWhole(bytes, n) == bytes

Slice(bytes, n) == SubSeq(bytes, 1, IF Len(bytes) < n THEN Len(bytes) ELSE n)

\* Client: getPublicKeyDetails(publicKey).
GetPublicKeyDetails(k) ==
  LET publicKeyBuffer == ExportSpki(k)
      hashBuffer == Sha256(publicKeyBuffer)
      fingerprintBytes == Slice(hashBuffer, FingerprintBytes)
  IN [ fingerprint |-> ArrayBufferToBase64(fingerprintBytes),
       fullPublicKey |-> ArrayBufferToBase64(publicKeyBuffer) ]

\* Server: verifyFingerprint(fingerprint, fullPublicKey).
VerifyFingerprintAlways(fingerprint, fullPublicKey) == TRUE

\* A JSON number in the place of a string: Buffer.from throws a TypeError
\* on it.
NotAString == << "#not-a-string" >>

VerifyFingerprint(fingerprint, fullPublicKey) ==
  IF fullPublicKey = NotAString
  THEN FALSE  \* base64ToArrayBuffer throws; the catch returns false
  ELSE LET publicKeyBuffer == Base64ToArrayBuffer(fullPublicKey)
           hashBuffer == Sha256(publicKeyBuffer)
           fingerprintBytes == Slice(hashBuffer, FingerprintBytes)
           calculatedFingerprint == Base64Encode(fingerprintBytes)
       IN calculatedFingerprint = fingerprint

\* The texts a request can carry.  A missing (or empty) field is <<>>.
Missing == <<>>
FingerprintOf(k) == GetPublicKeyDetails(k).fingerprint
PublicKeyOf(k) == GetPublicKeyDetails(k).fullPublicKey
Fingerprints == { FingerprintOf(k) : k \in KeyIds }
PublicKeys == { PublicKeyOf(k) : k \in KeyIds }

\* ------------------------------------------------------------- signatures
\* An ECDSA signature is an ideal term: who signed, what was signed, and
\* whether its bytes are still the ones the signer produced.
SignData(k, data) == [ signer |-> k, data |-> data, intact |-> TRUE ]

Tamper(sig) == [ sig EXCEPT !.intact = FALSE ]

\* subtle.importKey('spki', ...): the key a buffer encodes, if any.
ImportKey(publicKeyBuffer) ==
  IF \E k \in KeyIds : ExportSpki(k) = publicKeyBuffer
  THEN Some(CHOOSE k \in KeyIds : ExportSpki(k) = publicKeyBuffer)
  ELSE None

VerifySignatureAnyData(fullPublicKey, challenge, signature) ==
  LET publicKey == ImportKey(Base64ToArrayBuffer(fullPublicKey))
  IN IF ~IsSome(publicKey) THEN FALSE
     ELSE signature.intact /\ signature.signer = Val(publicKey)

VerifySignatureWithoutKey(fullPublicKey, challenge, signature) ==
  signature.intact /\ signature.data = challenge

\* Server: verifySignature(fullPublicKey, challenge, signature); an import
\* that throws is caught and answered false.
VerifySignature(fullPublicKey, challenge, signature) ==
  LET publicKey == ImportKey(Base64ToArrayBuffer(fullPublicKey))
  IN IF ~IsSome(publicKey) THEN FALSE
     ELSE /\ signature.intact
          /\ signature.signer = Val(publicKey)
          /\ signature.data = challenge

\* The signatures that are valid for a nonce under a registered public key:
\* those its key pair's holder made over that nonce.
ValidSignatures(fullPublicKey, nonce) ==
  { SignData(k, nonce) : k \in { j \in KeyIds : PublicKeyOf(j) = fullPublicKey } }

\* --------------------------------------------------------------------- maps
\* A Map is a function whose domain is the set of keys present.
EmptyMap == [ x \in {} |-> x ]
MapHas(m, k) == k \in DOMAIN m
MapGet(m, k) == IF k \in DOMAIN m THEN Some(m[k]) ELSE None
MapSet(m, k, v) == [ x \in DOMAIN m \cup {k} |-> IF x = k THEN v ELSE m[x] ]
MapDelete(m, k) == [ x \in DOMAIN m \ {k} |-> m[x] ]

\* ------------------------------------------------------------------ state
VARIABLES
  storageImpl,  \* which challenge store serves the endpoints: "mod" or "timed"
  now,          \* Date.now(), in milliseconds
  ticks,        \* times the clock has advanced
  users,        \* Map fingerprint -> User
  challenges,   \* Map fingerprint -> ChallengeData
  timers,       \* pending setTimeout callbacks of the timed store
  nextNonce,    \* randomBytes: the next fresh nonce
  session,      \* the browser's server session: its 'user' entry, if any
  reqs,         \* the requests received, each with its handler's locals
  consumed,     \* history: fingerprints whose challenge a verification used up
  keyStore,     \* the client's IndexedDB slot 'userKey'
  nextKey,      \* generateKey: the next fresh key pair
  client,       \* the client's authenticate() call
  keyCalls,     \* calls of getOrCreateKey() on the device, with their locals
  tokens,       \* the tokens generateJWT has signed outside the handler
  verifications,\* calls of verifyJWT, with what each returned
  page,         \* the client module's currentJwt, sessionStorage and fetches
  sessionReads, \* calls of getUserSession, with their locals
  loggedOut,    \* history: logout has answered 200, no authenticate since
  characters,   \* the documents of the collection 'characters', by _id
  indexes,      \* the names of the unique indexes that collection has
  charReqs,     \* the character requests received, with their locals
  mongo,        \* cachedClient, cachedDb, collectionsInitialized; clients made
  connects      \* calls of connectToDatabase, with their locals

vars == << storageImpl, now, ticks, users, challenges, timers, nextNonce,
           session, reqs, consumed, keyStore, nextKey, client, keyCalls,
           tokens, verifications, page, sessionReads,
           loggedOut, characters, indexes, charReqs, mongo, connects >>

\* ------------------------------------------------------- the two stores
\* users.get / users.set (in memory, or MongoDB findOne / upsert).
UsersGetAlwaysFound(m, fingerprint) ==
  Some([ fingerprint |-> fingerprint, publicKey |-> Missing, createdAt |-> 0 ])

UsersGet(m, fingerprint) == MapGet(m, fingerprint)
UsersSetNothing(m, fingerprint, user) == m

UsersSet(m, fingerprint, user) == MapSet(m, fingerprint, user)

\* challenges.get of src/mod/serverStorage.ts: a plain lookup.
ModChallengesGet(m, fingerprint, clock) ==
  [ data |-> MapGet(m, fingerprint), store |-> m ]

\* challenges.get of the timed store: an expired entry is deleted on read
\* and undefined is returned.
TimedChallengesGet(m, fingerprint, clock) ==
  LET data == MapGet(m, fingerprint)
  IN IF IsSome(data) /\ clock > Val(data).timestamp + Val(data).expiresIn
     THEN [ data |-> None, store |-> MapDelete(m, fingerprint) ]
     ELSE [ data |-> data, store |-> m ]

ChallengesGet(m, fingerprint, clock) ==
  IF storageImpl = "timed"
  THEN TimedChallengesGet(m, fingerprint, clock)
  ELSE ModChallengesGet(m, fingerprint, clock)

\* challenges.set: both stores overwrite the entry of the fingerprint.
ChallengesSet(m, fingerprint, data) == MapSet(m, fingerprint, data)

\* The timed store also schedules setTimeout(delete, data.expiresIn).
TimersAfterSet(ts, fingerprint, data, clock) ==
  IF storageImpl = "timed"
  THEN ts \cup { [ fingerprint |-> fingerprint, due |-> clock + data.expiresIn ] }
  ELSE ts

\* challenges.delete
ChallengesDeleteNothing(m, fingerprint) == m

ChallengesDelete(m, fingerprint) == MapDelete(m, fingerprint)

\* ------------------------------------------------------------- requests
NewRequest(kind, fingerprint, fullPublicKey, signature) ==
  [ kind |-> kind, pc |-> "start",
    fingerprint |-> fingerprint, fullPublicKey |-> fullPublicKey,
    signature |-> signature,
    user |-> None, challengeData |-> None, readNow |-> 0,
    challenge |-> None, jwt |-> None,
    status |-> 0, error |-> "",
    \* history, for the properties only
    followsChallenge |-> FALSE, staleNonce |-> None,
    afterUse |-> FALSE, superseded |-> FALSE, threw |-> FALSE ]

\* A Response that carried the handler's locals with it.
RespondWithLocals(rec, status, error) ==
  [ rec EXCEPT !.pc = "done", !.status = status, !.error = error ]

\* The handler returns its Response.  Its locals die with it: a 200 keeps
\* them for the record, an error keeps the request's identifier, public key
\* and history only.
Respond(rec, status, error) ==
  IF status = 200
  THEN [ rec EXCEPT !.pc = "done", !.status = status, !.error = error ]
  ELSE [ NewRequest(rec.kind, rec.fingerprint, rec.fullPublicKey, None)
           EXCEPT !.pc = "done", !.status = status, !.error = error,
                  !.followsChallenge = rec.followsChallenge,
                  !.staleNonce = rec.staleNonce,
                  !.afterUse = rec.afterUse ]

IsDone(rec) == rec.pc = "done"

\* catch (error) { console.error(...); return new Response(
\* JSON.stringify({ error: 'Internal server error' }), { status: 500 }) }
CatchAsUnauthorized(rec) ==
  [ Respond(rec, 401, "Internal server error") EXCEPT !.threw = TRUE ]

Catch(rec) ==
  [ Respond(rec, 500, "Internal server error") EXCEPT !.threw = TRUE ]

\* if (now - challengeData.timestamp > challengeData.expiresIn)
ExpiredNever(clock, data) == FALSE

Expired(clock, data) == clock - data.timestamp > data.expiresIn

\* generateJWT(fingerprint): the payload, with its two clock reads.
GenerateJWT(fingerprint, clock1, clock2) ==
  [ sub |-> fingerprint,
    iat |-> clock1 \div MsPerSecond,
    exp |-> clock2 \div MsPerSecond + JwtLifetime ]

\* createUserSession(session, fingerprint): the 'user' entry it sets.
CreateUserSession(fingerprint, clock) ==
  [ fingerprint |-> fingerprint, authenticatedAt |-> clock,
    expiresAt |-> clock + SessionLifetime * MsPerSecond ]

\* ------------------------------------------------------------------- init
ClientIdle ==
  [ pc |-> "idle", keyPair |-> None, fingerprint |-> Missing,
    fullPublicKey |-> Missing, chalReq |-> 0, authReq |-> 0, jwt |-> None,
    quiet |-> TRUE ]

Init ==
  /\ storageImpl \in {"mod", "timed"}
  /\ now = 0
  /\ ticks = 0
  /\ users = EmptyMap
  /\ challenges = EmptyMap
  /\ timers = {}
  /\ nextNonce = 1
  /\ session = None
  /\ reqs = <<>>
  /\ consumed = {}
  /\ keyStore = None
  /\ nextKey = 1
  /\ client = ClientIdle
  /\ keyCalls = <<>>
  /\ tokens = <<>>
  /\ verifications = <<>>
  /\ page = [ currentJwt |-> None, sessionStorage |-> None, sent |-> <<>>,
              \* history, for the properties only
              authenticated |-> FALSE, retained |-> None ]
  /\ sessionReads = <<>>
  /\ loggedOut = FALSE
  /\ characters = <<>>
  /\ indexes = {}
  /\ charReqs = <<>>
  /\ mongo = [ cachedClient |-> None, cachedDb |-> None,
               collectionsInitialized |-> FALSE,
               \* history, for the properties only
               clients |-> 0 ]
  /\ connects = <<>>

\* Milliseconds a synchronous stretch of code can see pass between two of
\* its clock reads.
InlineSteps == {0, 1}

\* ------------------------------------------------------------- the clock
Tick ==
  /\ ticks < MaxTicks
  /\ \E d \in TickSteps : now' = now + d
  /\ ticks' = ticks + 1
  /\ UNCHANGED << storageImpl, users, challenges, timers, nextNonce, session,
                  reqs, consumed, keyStore, nextKey, client, keyCalls,
                  tokens, verifications, page, sessionReads,
                  loggedOut, characters, indexes, charReqs, mongo, connects >>

\* The callback of setTimeout(() => inMemoryChallenges.delete(fingerprint)).
TimerFire ==
  \E t \in timers :
    /\ now >= t.due
    /\ challenges' = MapDelete(challenges, t.fingerprint)
    /\ timers' = timers \ {t}
    /\ UNCHANGED << storageImpl, now, ticks, users, nextNonce, session, reqs,
                    consumed, keyStore, nextKey, client, keyCalls, tokens,
                    verifications, page, sessionReads,
                    loggedOut, characters, indexes, charReqs, mongo, connects >>

\* ------------------------------------------------------ POST /api/challenge
\* From the request's arrival to the await of users.get.
ChallengeArrival(fingerprint, fullPublicKey) ==
  LET rec == NewRequest("challenge", fingerprint, fullPublicKey, None)
  IN IF fingerprint = Missing \/ fullPublicKey = Missing
     THEN Respond(rec, 400, "Missing fingerprint or fullPublicKey")
     ELSE IF ~VerifyFingerprint(fingerprint, fullPublicKey)
     THEN Respond(rec, 400, "Fingerprint does not match public key")
     ELSE [ rec EXCEPT !.pc = "c_user",
                       !.user = UsersGet(users, fingerprint) ]

\* An arrival of a request of another tab, device or attacker disturbs the
\* client's exchange when it names the client's identifier.
QuietAfter(fingerprint) ==
  IF client.pc \in {"awaitingChallenge", "awaitingAuth"}
     /\ fingerprint = client.fingerprint
  THEN FALSE
  ELSE client.quiet

EnvChallenge ==
  /\ Len(reqs) < MaxReq
  /\ \E fingerprint \in Fingerprints \cup {Missing},
        fullPublicKey \in PublicKeys \cup {Missing} :
       /\ reqs' = Append(reqs, ChallengeArrival(fingerprint, fullPublicKey))
       /\ client' = [ client EXCEPT !.quiet = QuietAfter(fingerprint) ]
  /\ UNCHANGED << storageImpl, now, ticks, users, challenges, timers,
                  nextNonce, session, consumed, keyStore, nextKey, keyCalls,
                  tokens, verifications, page, sessionReads,
                  loggedOut, characters, indexes, charReqs, mongo, connects >>

\* if (!user) { user = {...}; await users.set(fingerprint, user); }
\* createdAt is the instant of the registration: new Date().toISOString()
\* writes that instant's millisecond count as a text, one text per instant.
ChallengeRegister(r) ==
  /\ reqs[r].kind = "challenge"
  /\ reqs[r].pc = "c_user"
  /\ ~IsSome(reqs[r].user)
  /\ LET user == [ fingerprint |-> reqs[r].fingerprint,
                   publicKey |-> reqs[r].fullPublicKey,
                   createdAt |-> now ]
     IN /\ users' = UsersSet(users, reqs[r].fingerprint, user)
        /\ reqs' = [ reqs EXCEPT ![r].pc = "c_registered",
                                 ![r].user = Some(user) ]
  /\ UNCHANGED << storageImpl, now, ticks, challenges, timers, nextNonce,
                  session, consumed, keyStore, nextKey, client, keyCalls,
                  tokens, verifications, page, sessionReads,
                  loggedOut, characters, indexes, charReqs, mongo, connects >>

\* randomBytes(32), await challenges.set(fingerprint, {...}), and the 200
\* response that follows the await.
ChallengeStore(r) ==
  /\ reqs[r].kind = "challenge"
  /\ \/ reqs[r].pc = "c_user" /\ IsSome(reqs[r].user)
     \/ reqs[r].pc = "c_registered"
  /\ LET fingerprint == reqs[r].fingerprint
         data == [ fingerprint |-> fingerprint, challenge |-> nextNonce,
                   timestamp |-> now, expiresIn |-> ChallengeTTL ]
     IN /\ challenges' = ChallengesSet(challenges, fingerprint, data)
        /\ timers' = TimersAfterSet(timers, fingerprint, data, now)
        /\ consumed' = consumed \ {fingerprint}
        /\ reqs' = [ reqs EXCEPT ![r] =
                       Respond([ @ EXCEPT !.challengeData = Some(data),
                                          !.challenge = Some(nextNonce) ],
                               200, "") ]
  /\ nextNonce' = nextNonce + 1
  /\ UNCHANGED << storageImpl, now, ticks, users, session, keyStore, nextKey,
                  client, keyCalls, tokens, verifications, page,
                  sessionReads,
                  loggedOut, characters, indexes, charReqs, mongo, connects >>

\* --------------------------------------------------- POST /api/authenticate
\* From the request's arrival to the await of users.get.
AuthArrival(fingerprint, signature) ==
  LET rec == [ NewRequest("authenticate", fingerprint, Missing, signature)
                 EXCEPT !.followsChallenge =
                   \E c \in 1..Len(reqs) :
                     /\ reqs[c].kind = "challenge"
                     /\ reqs[c].fingerprint = fingerprint
                     /\ IsDone(reqs[c]) /\ reqs[c].status = 200 ]
  IN IF fingerprint = Missing \/ ~IsSome(signature)
     THEN Respond(rec, 400, "Missing fingerprint or signature")
     ELSE [ rec EXCEPT !.pc = "a_user",
                       !.user = UsersGet(users, fingerprint) ]

\* The signatures another tab, device or attacker can submit: made with any
\* key over any nonce issued so far, intact or with a byte flipped, or none
\* at all.
EnvSignatures ==
  {None} \cup
  UNION { { Some(SignData(k, n)), Some(Tamper(SignData(k, n))) } :
            k \in KeyIds, n \in 1..(nextNonce - 1) }

EnvAuthenticate ==
  /\ Len(reqs) < MaxReq
  /\ \E fingerprint \in Fingerprints \cup {Missing}, signature \in EnvSignatures :
       /\ reqs' = Append(reqs, AuthArrival(fingerprint, signature))
       /\ client' = [ client EXCEPT !.quiet = QuietAfter(fingerprint) ]
  /\ UNCHANGED << storageImpl, now, ticks, users, challenges, timers,
                  nextNonce, session, consumed, keyStore, nextKey, keyCalls,
                  tokens, verifications, page, sessionReads,
                  loggedOut, characters, indexes, charReqs, mongo, connects >>

\* if (!user) 401; const challengeData = await challenges.get(fingerprint);
AuthGetChallenge(r) ==
  /\ reqs[r].kind = "authenticate"
  /\ reqs[r].pc = "a_user"
  /\ IF ~IsSome(reqs[r].user)
     THEN /\ reqs' = [ reqs EXCEPT ![r] = Respond(@, 401, "User not found") ]
          /\ UNCHANGED challenges
     ELSE LET got == ChallengesGet(challenges, reqs[r].fingerprint, now)
          IN /\ challenges' = got.store
             /\ reqs' = [ reqs EXCEPT
                  ![r].pc = "a_challenge",
                  ![r].challengeData = got.data,
                  ![r].staleNonce =
                     LET stored == MapGet(challenges, reqs[r].fingerprint)
                     IN IF /\ IsSome(stored)
                           /\ now > Val(stored).timestamp + ChallengeTTL
                           /\ Val(reqs[r].signature) \in
                                ValidSignatures(Val(reqs[r].user).publicKey,
                                                Val(stored).challenge)
                        THEN Some(Val(stored).challenge)
                        ELSE None,
                  ![r].afterUse = reqs[r].fingerprint \in consumed ]
  /\ UNCHANGED << storageImpl, now, ticks, users, timers, nextNonce, session,
                  consumed, keyStore, nextKey, client, keyCalls, tokens,
                  verifications, page, sessionReads,
                  loggedOut, characters, indexes, charReqs, mongo, connects >>

\* if (!challengeData) 401; const now = Date.now(); the expiry check; then
\* await challenges.delete(fingerprint) on either branch, followed on the
\* expired branch by the 401 response.
AuthConsume(r) ==
  /\ reqs[r].kind = "authenticate"
  /\ reqs[r].pc = "a_challenge"
  /\ IF ~IsSome(reqs[r].challengeData)
     THEN /\ reqs' = [ reqs EXCEPT ![r] = Respond(@, 401, "No challenge found") ]
          /\ UNCHANGED << challenges, consumed >>
     ELSE LET challengeData == Val(reqs[r].challengeData)
          IN /\ challenges' = ChallengesDelete(challenges, reqs[r].fingerprint)
             /\ IF Expired(now, challengeData)
                THEN /\ reqs' = [ reqs EXCEPT ![r] =
                                    Respond(@, 401, "Challenge expired") ]
                     /\ UNCHANGED consumed
                ELSE /\ reqs' = [ reqs EXCEPT
                          ![r].pc = "a_deleted",
                          ![r].readNow = now,
                          ![r].challenge = Some(challengeData.challenge) ]
                     /\ consumed' = consumed \cup {reqs[r].fingerprint}
  /\ UNCHANGED << storageImpl, now, ticks, users, timers, nextNonce, session,
                  keyStore, nextKey, client, keyCalls, tokens, verifications,
                  page, sessionReads,
                  loggedOut, characters, indexes, charReqs, mongo, connects >>

\* await verifySignature(...); if (!isValid) 401; generateJWT(fingerprint);
\* await createUserSession(session, fingerprint); the 200 response.
AuthVerify(r) ==
  /\ reqs[r].kind = "authenticate"
  /\ reqs[r].pc = "a_deleted"
  /\ LET isValid == VerifySignature(Val(reqs[r].user).publicKey,
                                    Val(reqs[r].challenge),
                                    Val(reqs[r].signature))
     IN IF ~isValid
        THEN /\ reqs' = [ reqs EXCEPT ![r] = Respond(@, 401, "Invalid signature") ]
             /\ UNCHANGED << now, ticks, session, loggedOut >>
        ELSE \E d1 \in InlineSteps, d2 \in InlineSteps :
               /\ UNCHANGED ticks
               /\ loggedOut' = FALSE
               /\ now' = now + d1 + d2
               /\ reqs' = [ reqs EXCEPT ![r] =
                    Respond([ @ EXCEPT
                      !.jwt = Some(GenerateJWT(reqs[r].fingerprint, now, now + d1)),
                      !.superseded =
                        \E c \in 1..Len(reqs) :
                          /\ reqs[c].kind = "challenge"
                          /\ reqs[c].fingerprint = reqs[r].fingerprint
                          /\ IsDone(reqs[c]) /\ reqs[c].status = 200
                          /\ Val(reqs[c].challenge) > Val(reqs[r].challenge) ],
                      200, "") ]
               /\ session' = Some(CreateUserSession(reqs[r].fingerprint,
                                                    now + d1 + d2))
  /\ UNCHANGED << storageImpl, users, challenges, timers, nextNonce,
                  consumed, keyStore, nextKey, client, keyCalls, tokens,
                  verifications, page, sessionReads,
                  characters, indexes, charReqs, mongo, connects >>

\* ------------------------------------------------- the client: authenticate()
\* getOrCreateKey(): what it returns and what it leaves in the store.  A
\* failed read is answered null by getStoredKey, so a new pair is made; a
\* failed put rejects, and the pair it made is lost.
GetOrCreateKeyOutcomes ==
  LET found ==
        IF IsSome(keyStore)
        THEN { [ ok |-> TRUE, keyPair |-> keyStore, keyStore |-> keyStore,
                 nextKey |-> nextKey ] }
        ELSE {}
      created ==
        IF nextKey \in KeyIds
        THEN { [ ok |-> TRUE, keyPair |-> Some(nextKey),
                 keyStore |-> Some(nextKey), nextKey |-> nextKey + 1 ],
               [ ok |-> FALSE, keyPair |-> None, keyStore |-> keyStore,
                 nextKey |-> nextKey ] }
        ELSE {}
  IN found \cup created

\* Steps 1 to 3: the key pair, its details, and the challenge request.  A
\* call in which getOrCreateKey rejects sends nothing and leaves the caller
\* where it was.
ClientStart ==
  /\ client.pc = "idle"
  /\ Len(reqs) < MaxReq
  /\ \E o \in GetOrCreateKeyOutcomes :
       /\ keyStore' = o.keyStore
       /\ nextKey' = o.nextKey
       /\ IF ~o.ok
          THEN UNCHANGED << client, reqs >>
          ELSE LET details == GetPublicKeyDetails(Val(o.keyPair))
               IN /\ reqs' = Append(reqs,
                       ChallengeArrival(details.fingerprint,
                                        details.fullPublicKey))
                  /\ client' =
                       [ pc |-> "awaitingChallenge", keyPair |-> o.keyPair,
                         fingerprint |-> details.fingerprint,
                         fullPublicKey |-> details.fullPublicKey,
                         chalReq |-> Len(reqs) + 1, authReq |-> 0,
                         jwt |-> None,
                         quiet |-> \A i \in 1..Len(reqs) :
                                     reqs[i].fingerprint = details.fingerprint
                                       => IsDone(reqs[i]) ]
  /\ UNCHANGED << storageImpl, now, ticks, users, challenges, timers,
                  nextNonce, session, consumed, keyCalls, tokens,
                  verifications, page, sessionReads,
                  loggedOut, characters, indexes, charReqs, mongo, connects >>

\* if (!challengeResponse.ok): a client that starts over instead of failing.
ClientSignRetries ==
  /\ client.pc = "awaitingChallenge"
  /\ IsDone(reqs[client.chalReq])
  /\ IF reqs[client.chalReq].status # 200
     THEN /\ client' = [ client EXCEPT !.pc = "idle" ]
          /\ UNCHANGED reqs
     ELSE /\ Len(reqs) < MaxReq
          /\ LET signature == SignData(Val(client.keyPair),
                                       Val(reqs[client.chalReq].challenge))
             IN reqs' = Append(reqs,
                   AuthArrival(client.fingerprint, Some(signature)))
          /\ client' = [ client EXCEPT !.pc = "awaitingAuth",
                                       !.authReq = Len(reqs) + 1 ]
  /\ UNCHANGED << storageImpl, now, ticks, users, challenges, timers,
                  nextNonce, session, consumed, keyStore, nextKey, keyCalls,
                  tokens, verifications, page, sessionReads,
                  loggedOut, characters, indexes, charReqs, mongo, connects >>

\* if (!challengeResponse.ok) throw; step 4: signData; step 5: the
\* authenticate request.
ClientSign ==
  /\ client.pc = "awaitingChallenge"
  /\ IsDone(reqs[client.chalReq])
  /\ IF reqs[client.chalReq].status # 200
     THEN /\ client' = [ client EXCEPT !.pc = "failed" ]
          /\ UNCHANGED reqs
     ELSE /\ Len(reqs) < MaxReq
          /\ LET signature == SignData(Val(client.keyPair),
                                       Val(reqs[client.chalReq].challenge))
             IN reqs' = Append(reqs,
                   AuthArrival(client.fingerprint, Some(signature)))
          /\ client' = [ client EXCEPT !.pc = "awaitingAuth",
                                       !.authReq = Len(reqs) + 1 ]
  /\ UNCHANGED << storageImpl, now, ticks, users, challenges, timers,
                  nextNonce, session, consumed, keyStore, nextKey, keyCalls,
                  tokens, verifications, page, sessionReads,
                  loggedOut, characters, indexes, charReqs, mongo, connects >>

\* if (!authResponse.ok) throw; return jwt.
ClientFinish ==
  /\ client.pc = "awaitingAuth"
  /\ IsDone(reqs[client.authReq])
  /\ IF reqs[client.authReq].status # 200
     THEN client' = [ client EXCEPT !.pc = "failed" ]
     ELSE client' = [ client EXCEPT !.pc = "authenticated",
                                    !.jwt = reqs[client.authReq].jwt ]
  /\ UNCHANGED << storageImpl, now, ticks, users, challenges, timers,
                  nextNonce, session, reqs, consumed, keyStore, nextKey,
                  keyCalls, tokens, verifications, page, sessionReads,
                  loggedOut, characters, indexes, charReqs, mongo, connects >>

\* ------------------------------------------------ store calls that reject
\* With MONGODB_URI set, every call of src/mod/serverStorage.ts awaits the
\* database and rejects when the database does; session.set rejects when
\* the session driver does.  A rejected call has changed nothing; the
\* handler's catch answers.
StoreFrame ==
  UNCHANGED << storageImpl, now, ticks, users, challenges, timers, nextNonce,
               session, consumed, keyStore, nextKey, client, keyCalls,
               tokens, verifications, page, sessionReads,
               loggedOut, characters, indexes, charReqs, mongo, connects >>

\* await users.get(fingerprint) rejects, in either handler.
UsersGetRejects ==
  /\ Len(reqs) < MaxReq
  /\ \/ \E fingerprint \in Fingerprints, fullPublicKey \in PublicKeys :
          /\ VerifyFingerprint(fingerprint, fullPublicKey)
          /\ reqs' = Append(reqs,
               Catch(NewRequest("challenge", fingerprint, fullPublicKey, None)))
     \/ \E fingerprint \in Fingerprints, signature \in EnvSignatures \ {None} :
          reqs' = Append(reqs,
            Catch(NewRequest("authenticate", fingerprint, Missing, signature)))
  /\ StoreFrame

\* await users.set(fingerprint, user) rejects.
UsersSetRejects(r) ==
  /\ reqs[r].kind = "challenge"
  /\ reqs[r].pc = "c_user"
  /\ ~IsSome(reqs[r].user)
  /\ reqs' = [ reqs EXCEPT ![r] = Catch(@) ]
  /\ StoreFrame

\* await challenges.set(fingerprint, {...}) rejects.
ChallengesSetRejects(r) ==
  /\ reqs[r].kind = "challenge"
  /\ \/ reqs[r].pc = "c_user" /\ IsSome(reqs[r].user)
     \/ reqs[r].pc = "c_registered"
  /\ reqs' = [ reqs EXCEPT ![r] = Catch(@) ]
  /\ StoreFrame

\* await challenges.get(fingerprint) rejects.
ChallengesGetRejects(r) ==
  /\ reqs[r].kind = "authenticate"
  /\ reqs[r].pc = "a_user"
  /\ IsSome(reqs[r].user)
  /\ reqs' = [ reqs EXCEPT ![r] = Catch(@) ]
  /\ StoreFrame

\* await challenges.delete(fingerprint) rejects, on the expired branch or
\* before the verification.
ChallengesDeleteRejects(r) ==
  /\ reqs[r].kind = "authenticate"
  /\ reqs[r].pc = "a_challenge"
  /\ IsSome(reqs[r].challengeData)
  /\ reqs' = [ reqs EXCEPT ![r] = Catch(@) ]
  /\ StoreFrame

\* The signature is valid, generateJWT has made the token, and
\* await createUserSession(session, fingerprint) rejects.
SessionSetRejects(r) ==
  /\ reqs[r].kind = "authenticate"
  /\ reqs[r].pc = "a_deleted"
  /\ VerifySignature(Val(reqs[r].user).publicKey, Val(reqs[r].challenge),
                     Val(reqs[r].signature))
  /\ reqs' = [ reqs EXCEPT ![r] =
       Catch([ @ EXCEPT
         !.jwt = Some(GenerateJWT(reqs[r].fingerprint, now, now)) ]) ]
  /\ StoreFrame

\* The endpoints on the store of src/mod/serverStorage.ts with a database
\* that may reject any call.
InitStoreFailure == Init /\ storageImpl = "mod"

NextStoreFailure ==
  \/ Tick
  \/ EnvChallenge
  \/ EnvAuthenticate
  \/ \E r \in 1..Len(reqs) : ChallengeRegister(r)
  \/ \E r \in 1..Len(reqs) : ChallengeStore(r)
  \/ \E r \in 1..Len(reqs) : AuthGetChallenge(r)
  \/ \E r \in 1..Len(reqs) : AuthConsume(r)
  \/ \E r \in 1..Len(reqs) : AuthVerify(r)
  \/ UsersGetRejects
  \/ \E r \in 1..Len(reqs) : UsersSetRejects(r)
  \/ \E r \in 1..Len(reqs) : ChallengesSetRejects(r)
  \/ \E r \in 1..Len(reqs) : ChallengesGetRejects(r)
  \/ \E r \in 1..Len(reqs) : ChallengesDeleteRejects(r)
  \/ \E r \in 1..Len(reqs) : SessionSetRejects(r)

SpecStoreFailure == InitStoreFailure /\ [][NextStoreFailure]_vars

\* The client's call against endpoints whose store may reject: every
\* failing branch of authenticate() can be taken.
NextClient ==
  \/ Tick
  \/ ClientStart
  \/ ClientSign
  \/ ClientFinish
  \/ \E r \in 1..Len(reqs) : ChallengeRegister(r)
  \/ \E r \in 1..Len(reqs) : ChallengeStore(r)
  \/ \E r \in 1..Len(reqs) : AuthGetChallenge(r)
  \/ \E r \in 1..Len(reqs) : AuthConsume(r)
  \/ \E r \in 1..Len(reqs) : AuthVerify(r)
  \/ \E r \in 1..Len(reqs) : UsersSetRejects(r)
  \/ \E r \in 1..Len(reqs) : ChallengesSetRejects(r)
  \/ \E r \in 1..Len(reqs) : ChallengesGetRejects(r)
  \/ \E r \in 1..Len(reqs) : ChallengesDeleteRejects(r)
  \/ \E r \in 1..Len(reqs) : SessionSetRejects(r)

SpecClient == InitStoreFailure /\ [][NextClient]_vars

\* ------------------------------------------------ malformed request fields
\* The endpoints fed with fields that are not what the client sends: a
\* public key text that is no SPKI encoding ("=" decodes to no bytes at
\* all), the client's key text with its padding dropped, a field that is
\* not a string, and a signature that is not the encoding of any.
JunkPublicKey == << "=" >>

JunkFingerprint ==
  Base64Encode(Slice(Sha256(Base64ToArrayBuffer(JunkPublicKey)),
                     FingerprintBytes))

UnpaddedPublicKey == SubSeq(PublicKeyOf(1), 1, Len(PublicKeyOf(1)) - 2)

MalformedPublicKeys ==
  { PublicKeyOf(1), PublicKeyOf(2), UnpaddedPublicKey, JunkPublicKey,
    NotAString }

MalformedFingerprints == { FingerprintOf(1), JunkFingerprint, NotAString }

\* subtle.verify answers false for it, or base64ToArrayBuffer throws on it
\* and the catch of verifySignature answers false.
UndecodableSignature == [ signer |-> 0, data |-> 0, intact |-> FALSE ]

MalformedChallenge ==
  /\ Len(reqs) < MaxReq
  /\ \E fingerprint \in MalformedFingerprints,
        fullPublicKey \in MalformedPublicKeys :
       reqs' = Append(reqs, ChallengeArrival(fingerprint, fullPublicKey))
  /\ UNCHANGED << storageImpl, now, ticks, users, challenges, timers,
                  nextNonce, session, consumed, keyStore, nextKey, client,
                  keyCalls, tokens, verifications, page, sessionReads,
                  loggedOut, characters, indexes, charReqs, mongo, connects >>

MalformedAuthenticate ==
  /\ Len(reqs) < MaxReq
  /\ \E fingerprint \in MalformedFingerprints,
        signature \in (EnvSignatures \ {None})
                        \cup {Some(UndecodableSignature)} :
       reqs' = Append(reqs, AuthArrival(fingerprint, signature))
  /\ UNCHANGED << storageImpl, now, ticks, users, challenges, timers,
                  nextNonce, session, consumed, keyStore, nextKey, client,
                  keyCalls, tokens, verifications, page, sessionReads,
                  loggedOut, characters, indexes, charReqs, mongo, connects >>

NextMalformed ==
  \/ MalformedChallenge
  \/ MalformedAuthenticate
  \/ \E r \in 1..Len(reqs) : ChallengeRegister(r)
  \/ \E r \in 1..Len(reqs) : ChallengeStore(r)
  \/ \E r \in 1..Len(reqs) : AuthGetChallenge(r)
  \/ \E r \in 1..Len(reqs) : AuthConsume(r)
  \/ \E r \in 1..Len(reqs) : AuthVerify(r)

SpecMalformed == Init /\ [][NextMalformed]_vars

\* ------------------------------------------------- the client: key manager
\* One call of getOrCreateKey(), followed by the caller's
\* getPublicKeyDetails(keyPair.publicKey).  Calls of several tabs of one
\* profile share the IndexedDB slot and may overlap.
NewKeyCall ==
  [ pc |-> "getStoredKey", existingKey |-> None, keyPair |-> None,
    result |-> None, details |-> None,
    \* history, for the properties only
    readFailed |-> FALSE,
    alone |-> \A d \in 1..Len(keyCalls) :
                keyCalls[d].pc \in {"returned", "details", "rejected"},
    earlier |-> { Val(keyCalls[c].result) :
                    c \in { d \in 1..Len(keyCalls) :
                              IsSome(keyCalls[d].result) } } ]

KeyCallStart ==
  /\ Len(keyCalls) < MaxCalls
  /\ keyCalls' = Append(keyCalls, NewKeyCall)
  /\ UNCHANGED << storageImpl, now, ticks, users, challenges, timers,
                  nextNonce, session, reqs, consumed, keyStore, nextKey,
                  client, tokens, verifications, page, sessionReads,
                  loggedOut, characters, indexes, charReqs, mongo, connects >>

\* getStoredKey(): the stored pair, or null when the slot is empty; an error
\* of openDatabase or of the read is caught and answered null as well.
GetStoredKeyResults ==
  { [ existingKey |-> keyStore, readFailed |-> FALSE ],
    [ existingKey |-> None, readFailed |-> TRUE ] }

\* const existingKey = await getStoredKey(); if (existingKey) return it;
\* otherwise createAndStoreKey() is entered.
KeyGetStored(c) ==
  /\ keyCalls[c].pc = "getStoredKey"
  /\ \E got \in GetStoredKeyResults :
       keyCalls' = [ keyCalls EXCEPT
         ![c].existingKey = got.existingKey,
         ![c].readFailed = got.readFailed,
         ![c].result = got.existingKey,
         ![c].pc = IF IsSome(got.existingKey) THEN "returned"
                                              ELSE "generateKey" ]
  /\ UNCHANGED << storageImpl, now, ticks, users, challenges, timers,
                  nextNonce, session, reqs, consumed, keyStore, nextKey,
                  client, tokens, verifications, page, sessionReads,
                  loggedOut, characters, indexes, charReqs, mongo, connects >>

\* createAndStoreKey(): await subtle.generateKey(...)
KeyGenerate(c) ==
  /\ keyCalls[c].pc = "generateKey"
  /\ nextKey \in KeyIds
  /\ keyCalls' = [ keyCalls EXCEPT ![c].keyPair = Some(nextKey),
                                   ![c].pc = "put" ]
  /\ nextKey' = nextKey + 1
  /\ UNCHANGED << storageImpl, now, ticks, users, challenges, timers,
                  nextNonce, session, reqs, consumed, keyStore, client,
                  tokens, verifications, page, sessionReads,
                  loggedOut, characters, indexes, charReqs, mongo, connects >>

\* createAndStoreKey(): openDatabase, store.put(keyPair, KEY_ID), return
\* keyPair; an error of openDatabase or of the put rejects the call.
KeyPut(c) ==
  /\ keyCalls[c].pc = "put"
  /\ \/ /\ keyStore' = keyCalls[c].keyPair
        /\ keyCalls' = [ keyCalls EXCEPT ![c].result = keyCalls[c].keyPair,
                                         ![c].pc = "returned" ]
     \/ /\ UNCHANGED keyStore
        /\ keyCalls' = [ keyCalls EXCEPT ![c].pc = "rejected" ]
  /\ UNCHANGED << storageImpl, now, ticks, users, challenges, timers,
                  nextNonce, session, reqs, consumed, nextKey, client,
                  tokens, verifications, page, sessionReads,
                  loggedOut, characters, indexes, charReqs, mongo, connects >>

\* The caller goes on with getPublicKeyDetails(keyPair.publicKey).
KeyDetails(c) ==
  /\ keyCalls[c].pc = "returned"
  /\ keyCalls' = [ keyCalls EXCEPT
       ![c].details = Some(GetPublicKeyDetails(Val(keyCalls[c].result))),
       ![c].pc = "details" ]
  /\ UNCHANGED << storageImpl, now, ticks, users, challenges, timers,
                  nextNonce, session, reqs, consumed, keyStore, nextKey,
                  client, tokens, verifications, page, sessionReads,
                  loggedOut, characters, indexes, charReqs, mongo, connects >>

NextKeys ==
  \/ KeyCallStart
  \/ \E c \in 1..Len(keyCalls) : KeyGetStored(c)
  \/ \E c \in 1..Len(keyCalls) : KeyGenerate(c)
  \/ \E c \in 1..Len(keyCalls) : KeyPut(c)
  \/ \E c \in 1..Len(keyCalls) : KeyDetails(c)

SpecKeys == Init /\ [][NextKeys]_vars

\* ------------------------------------------------------------------ tokens
\* jwt.sign(payload, secret): a token is its payload together with the
\* secret its signature was made with; a text that is no token at all (or a
\* value that is not a string) is not well formed.
JwtSecret == "JWT_SECRET"

OtherSecret == "not the server's secret"

JwtSign(payload, secret) ==
  [ wellFormed |-> TRUE, payload |-> payload, secret |-> secret ]

MalformedToken ==
  [ wellFormed |-> FALSE, payload |-> [ sub |-> Missing, iat |-> 0, exp |-> 0 ],
    secret |-> "" ]

\* jwt.verify(token, secret) at a clock: it throws on a malformed token, on a
\* signature that the secret did not make, and when the clock's second has
\* reached the payload's exp; otherwise it returns the payload.
JwtVerify(token, secret, clock) ==
  IF ~token.wellFormed
  THEN [ error |-> "JsonWebTokenError", payload |-> None ]
  ELSE IF token.secret # secret
  THEN [ error |-> "JsonWebTokenError", payload |-> None ]
  ELSE IF clock \div MsPerSecond >= token.payload.exp
  THEN [ error |-> "TokenExpiredError", payload |-> None ]
  ELSE [ error |-> "", payload |-> Some(token.payload) ]

\* A verifyJWT that decodes the token without verifying it.
VerifyJWTDecodeOnly(token, clock) ==
  IF token.wellFormed THEN Some(token.payload) ELSE None

\* A verifyJWT that also asks for a live server session.
VerifyJWTWithSession(token, clock) ==
  IF ~IsSome(session) THEN None
  ELSE JwtVerify(token, JwtSecret, clock).payload

\* verifyJWT(token): try { return jwt.verify(token, JWT_SECRET) }
\* catch { return null }
VerifyJWT(token, clock) ==
  LET verified == JwtVerify(token, JwtSecret, clock)
  IN IF verified.error # "" THEN None ELSE verified.payload

\* Amounts by which the clock jumps over the life of a token or a session.
LifetimeSteps ==
  { JwtLifetime * MsPerSecond - 1, JwtLifetime * MsPerSecond,
    JwtLifetime * MsPerSecond + 1 }

LifetimeTick ==
  /\ ticks < MaxTicks
  /\ \E d \in LifetimeSteps : now' = now + d
  /\ ticks' = ticks + 1
  /\ UNCHANGED << storageImpl, users, challenges, timers, nextNonce, session,
                  reqs, consumed, keyStore, nextKey, client, keyCalls,
                  tokens, verifications, page, sessionReads,
                  loggedOut, characters, indexes, charReqs, mongo, connects >>

\* generateJWT(fingerprint), with its two clock reads.
GenerateToken ==
  /\ Len(tokens) < MaxTokens
  /\ \E fingerprint \in Fingerprints, d \in InlineSteps :
       /\ tokens' = Append(tokens,
            [ token |-> JwtSign(GenerateJWT(fingerprint, now, now + d),
                                JwtSecret),
              sub |-> fingerprint ])
       /\ now' = now + d
  /\ UNCHANGED << storageImpl, ticks, users, challenges, timers, nextNonce,
                  session, reqs, consumed, keyStore, nextKey, client, keyCalls,
                  verifications, page, sessionReads,
                  loggedOut, characters, indexes, charReqs, mongo, connects >>

\* A logout that answers 200 and leaves the session where it was.
LogoutKeepsSession ==
  /\ IsSome(session)
  /\ ~loggedOut
  /\ loggedOut' = TRUE
  /\ UNCHANGED << storageImpl, now, ticks, users, challenges, timers,
                  nextNonce, session, reqs, consumed, keyStore, nextKey,
                  client, keyCalls, tokens, verifications, page, sessionReads,
                  characters, indexes, charReqs, mongo, connects >>

\* POST /api/logout: await destroyUserSession(session), then the 200
\* response.
Logout ==
  /\ IsSome(session)
  /\ session' = None
  /\ loggedOut' = TRUE
  /\ UNCHANGED << storageImpl, now, ticks, users, challenges, timers,
                  nextNonce, reqs, consumed, keyStore, nextKey, client,
                  keyCalls, tokens, verifications, page, sessionReads,
                  characters, indexes, charReqs, mongo, connects >>

\* The tokens the authenticate endpoint has returned.
ReturnedTokens ==
  { [ token |-> JwtSign(Val(reqs[r].jwt), JwtSecret),
      sub |-> reqs[r].fingerprint ] :
      r \in { q \in 1..Len(reqs) :
                reqs[q].kind = "authenticate" /\ reqs[q].status = 200 } }

\* What a caller can hand to verifyJWT: a token the server signed, such a
\* token's payload with a later exp under a signature the server did not
\* make, or a text that is no token.
PresentedTokens ==
  LET signed == { tokens[i] : i \in 1..Len(tokens) } \cup ReturnedTokens
  IN signed
     \cup { [ token |-> JwtSign([ t.token.payload EXCEPT
                                    !.exp = @ + JwtLifetime ], OtherSecret),
              sub |-> t.sub ] : t \in signed }
     \cup { [ token |-> MalformedToken, sub |-> Missing ] }

\* const payload = verifyJWT(token), in an endpoint that reads the token
\* from the Authorization header.
VerifyToken ==
  /\ Len(verifications) < MaxVerify
  /\ \E t \in PresentedTokens :
       verifications' = Append(verifications,
         [ token |-> t.token, issuedFor |-> t.sub, clock |-> now,
           result |-> VerifyJWT(t.token, now),
           \* history, for the properties only
           server |-> << users, challenges, session, tokens >> ])
  /\ UNCHANGED << storageImpl, now, ticks, users, challenges, timers,
                  nextNonce, session, reqs, consumed, keyStore, nextKey,
                  client, keyCalls, tokens, page, sessionReads,
                  loggedOut, characters, indexes, charReqs, mongo, connects >>

\* generateJWT and verifyJWT over the life of a token.
NextTokens ==
  \/ LifetimeTick
  \/ GenerateToken
  \/ VerifyToken

SpecTokens == InitStoreFailure /\ [][NextTokens]_vars

\* The client's exchange, logout and verifyJWT side by side: the server's
\* stores and session change between two verifications of a token.
NextStateless ==
  \/ Logout
  \/ VerifyToken
  \/ EnvChallenge
  \/ ClientStart
  \/ ClientSign
  \/ ClientFinish
  \/ \E r \in 1..Len(reqs) : ChallengeRegister(r)
  \/ \E r \in 1..Len(reqs) : ChallengeStore(r)
  \/ \E r \in 1..Len(reqs) : AuthGetChallenge(r)
  \/ \E r \in 1..Len(reqs) : AuthConsume(r)
  \/ \E r \in 1..Len(reqs) : AuthVerify(r)

SpecStateless == InitStoreFailure /\ [][NextStateless]_vars

\* ------------------------------------------- the client: the retained token
\* setJwt(jwt): currentJwt = jwt; sessionStorage.setItem('jwt', jwt).
SetJwtMemoryOnly(p, jwt) == [ p EXCEPT !.currentJwt = Some(jwt) ]

SetJwt(p, jwt) ==
  [ p EXCEPT !.currentJwt = Some(jwt), !.sessionStorage = Some(jwt) ]

\* getJwt(): currentJwt, or else the item of sessionStorage, which it keeps
\* in currentJwt.
GetJwt(p) ==
  IF IsSome(p.currentJwt) THEN p
  ELSE [ p EXCEPT !.currentJwt = p.sessionStorage ]

\* A clearJwt that forgets the tab's sessionStorage.
ClearJwtMemoryOnly(p) == [ p EXCEPT !.currentJwt = None ]

\* clearJwt()
ClearJwt(p) == [ p EXCEPT !.currentJwt = None, !.sessionStorage = None ]

\* The page that called authenticate():
\* const jwt = await authenticate(); setJwt(jwt);
PageRetain ==
  /\ client.pc = "authenticated"
  /\ ~page.authenticated
  /\ page' = [ SetJwt(page, Val(client.jwt)) EXCEPT
                 !.authenticated = TRUE, !.retained = client.jwt ]
  /\ UNCHANGED << storageImpl, now, ticks, users, challenges, timers,
                  nextNonce, session, reqs, consumed, keyStore, nextKey,
                  client, keyCalls, tokens, verifications, sessionReads,
                  loggedOut, characters, indexes, charReqs, mongo, connects >>

\* The page is loaded again in its tab: the module's currentJwt starts as
\* null, sessionStorage is the tab's.
PageReload ==
  /\ IsSome(page.currentJwt)
  /\ page' = [ page EXCEPT !.currentJwt = None ]
  /\ UNCHANGED << storageImpl, now, ticks, users, challenges, timers,
                  nextNonce, session, reqs, consumed, keyStore, nextKey,
                  client, keyCalls, tokens, verifications, sessionReads,
                  loggedOut, characters, indexes, charReqs, mongo, connects >>

PageClear ==
  /\ IsSome(page.currentJwt) \/ IsSome(page.sessionStorage)
  /\ page' = [ ClearJwt(page) EXCEPT !.retained = None ]
  /\ UNCHANGED << storageImpl, now, ticks, users, challenges, timers,
                  nextNonce, session, reqs, consumed, keyStore, nextKey,
                  client, keyCalls, tokens, verifications, sessionReads,
                  loggedOut, characters, indexes, charReqs, mongo, connects >>

\* authenticatedFetch(url, options): throws when getJwt() gives nothing,
\* otherwise sends the request with Authorization: Bearer <jwt>.
AuthenticatedFetch ==
  /\ Len(page.sent) < MaxFetch
  /\ LET got == GetJwt(page)
         jwt == got.currentJwt
     IN page' = [ got EXCEPT !.sent = Append(@,
          IF ~IsSome(jwt)
          THEN [ threw |-> TRUE, requested |-> FALSE, authorization |-> None,
                 retained |-> page.retained ]
          ELSE [ threw |-> FALSE, requested |-> TRUE,
                 authorization |-> Some(<< "Bearer", Val(jwt) >>),
                 retained |-> page.retained ]) ]
  /\ UNCHANGED << storageImpl, now, ticks, users, challenges, timers,
                  nextNonce, session, reqs, consumed, keyStore, nextKey,
                  client, keyCalls, tokens, verifications, sessionReads,
                  loggedOut, characters, indexes, charReqs, mongo, connects >>

NextPage ==
  \/ Tick
  \/ ClientStart
  \/ ClientSign
  \/ ClientFinish
  \/ \E r \in 1..Len(reqs) : ChallengeRegister(r)
  \/ \E r \in 1..Len(reqs) : ChallengeStore(r)
  \/ \E r \in 1..Len(reqs) : AuthGetChallenge(r)
  \/ \E r \in 1..Len(reqs) : AuthConsume(r)
  \/ \E r \in 1..Len(reqs) : AuthVerify(r)
  \/ PageRetain
  \/ PageReload
  \/ PageClear
  \/ AuthenticatedFetch

SpecPage == InitStoreFailure /\ [][NextPage]_vars

\* The token store on its own: setJwt takes any string, so the tokens a
\* caller stores are tokens of either user under either signature.
StorableTokens ==
  { JwtSign(GenerateJWT(fingerprint, 0, 0), secret) :
      fingerprint \in Fingerprints, secret \in {JwtSecret, OtherSecret} }

\* setJwt(jwt)
PageSetJwt ==
  /\ \E jwt \in StorableTokens :
       page' = [ SetJwt(page, jwt) EXCEPT !.retained = Some(jwt) ]
  /\ UNCHANGED << storageImpl, now, ticks, users, challenges, timers,
                  nextNonce, session, reqs, consumed, keyStore, nextKey,
                  client, keyCalls, tokens, verifications, sessionReads,
                  loggedOut, characters, indexes, charReqs, mongo, connects >>

\* getJwt()
PageGetJwt ==
  /\ page' = GetJwt(page)
  /\ page' # page
  /\ UNCHANGED << storageImpl, now, ticks, users, challenges, timers,
                  nextNonce, session, reqs, consumed, keyStore, nextKey,
                  client, keyCalls, tokens, verifications, sessionReads,
                  loggedOut, characters, indexes, charReqs, mongo, connects >>

NextTokenStore ==
  \/ PageSetJwt
  \/ PageGetJwt
  \/ PageReload
  \/ PageClear
  \/ AuthenticatedFetch

SpecTokenStore == InitStoreFailure /\ [][NextTokenStore]_vars

\* ------------------------------------------------------ the session manager
\* if (userData.expiresAt < now)
SessionExpiredNever(userData, clock) == FALSE

SessionExpired(userData, clock) == userData.expiresAt < clock

\* getUserSession(session), up to its first await:
\* const userData = await session.get('user')
SessionGet ==
  /\ Len(sessionReads) < MaxReads
  /\ sessionReads' = Append(sessionReads,
       [ pc |-> "get", userData |-> session, clock |-> 0, result |-> None,
         destroyed |-> FALSE ])
  /\ UNCHANGED << storageImpl, now, ticks, users, challenges, timers,
                  nextNonce, session, reqs, consumed, keyStore, nextKey,
                  client, keyCalls, tokens, verifications, page,
                  loggedOut, characters, indexes, charReqs, mongo, connects >>

\* if (!userData) return null; const now = Date.now();
\* if (userData.expiresAt < now) { await session.destroy(); return null; }
\* return userData;
SessionCheck(c) ==
  /\ sessionReads[c].pc = "get"
  /\ LET userData == sessionReads[c].userData
     IN IF ~IsSome(userData)
        THEN /\ sessionReads' = [ sessionReads EXCEPT ![c].pc = "done" ]
             /\ UNCHANGED session
        ELSE IF SessionExpired(Val(userData), now)
        THEN /\ session' = None
             /\ sessionReads' = [ sessionReads EXCEPT
                  ![c].pc = "done", ![c].clock = now,
                  ![c].destroyed = TRUE ]
        ELSE /\ sessionReads' = [ sessionReads EXCEPT
                  ![c].pc = "done", ![c].clock = now,
                  ![c].result = userData ]
             /\ UNCHANGED session
  /\ UNCHANGED << storageImpl, now, ticks, users, challenges, timers,
                  nextNonce, reqs, consumed, keyStore, nextKey, client,
                  keyCalls, tokens, verifications, page,
                  loggedOut, characters, indexes, charReqs, mongo, connects >>

NextSession ==
  \/ LifetimeTick
  \/ Logout
  \/ SessionGet
  \/ \E c \in 1..Len(sessionReads) : SessionCheck(c)
  \/ EnvAuthenticate
  \/ ClientStart
  \/ ClientSign
  \/ ClientFinish
  \/ \E r \in 1..Len(reqs) : ChallengeRegister(r)
  \/ \E r \in 1..Len(reqs) : ChallengeStore(r)
  \/ \E r \in 1..Len(reqs) : AuthGetChallenge(r)
  \/ \E r \in 1..Len(reqs) : AuthConsume(r)
  \/ \E r \in 1..Len(reqs) : AuthVerify(r)

SpecSession == InitStoreFailure /\ [][NextSession]_vars

\* ------------------------------------------------- the characters collection
\* The slots a user has.
Slots == 0..3

\* validClasses
ValidClasses ==
  { "HUcaseal", "HUcast", "HUmar", "HUmarl", "HUnewm", "HUnewearl",
    "RAcast", "RAcaseal", "RAmar", "RAmarl",
    "FOmar", "FOmarl", "FOnewm", "FOnewearl" }

\* CharactersIndexes: the unique index the collection is declared with.
CharactersIndexes ==
  { [ name |-> "user_slot_unique", unique |-> TRUE, partial |-> TRUE ] }

\* collection.createIndex(index.key, { name, unique, expireAfterSeconds }):
\* the options it passes leave partialFilterExpression out, so the index
\* it makes covers every document.
CreateIndex(index) ==
  [ name |-> index.name, unique |-> index.unique, partial |-> FALSE ]

\* Whether the collection's unique indexes refuse a document: one of them
\* already holds its key (userId, slot); a partial index holds the keys of
\* the active documents only.
DuplicateKey(docs, ixs, doc) ==
  \E ix \in ixs :
    /\ ix.unique
    /\ \E i \in 1..Len(docs) :
         /\ docs[i].userId = doc.userId
         /\ docs[i].slot = doc.slot
         /\ ix.partial => (docs[i].deletedAt = None /\ doc.deletedAt = None)

\* A document: the newCharacter of POST.
NewCharacter(userId, body, clock) ==
  [ userId |-> userId, name |-> body.name, slot |-> Val(body.slot).n,
    classId |-> body.class_id, textureId |-> body.texture_id,
    level |-> 1, experience |-> 0,
    createdAt |-> clock, deletedAt |-> None ]

\* find({ userId, deletedAt: null }) over every user.
CharactersFindAnyUser(docs, userId) ==
  { i \in 1..Len(docs) : docs[i].deletedAt = None }

\* find({ userId, deletedAt: null }): the _ids of the documents it matches.
CharactersFind(docs, userId) ==
  { i \in 1..Len(docs) : docs[i].userId = userId /\ docs[i].deletedAt = None }

\* .sort({ slot: 1 }).toArray(); documents of one slot keep their order.
RECURSIVE SortBySlot(_, _)
SortBySlot(docs, ids) ==
  IF ids = {} THEN <<>>
  ELSE LET first == CHOOSE i \in ids :
             \A j \in ids : \/ docs[i].slot < docs[j].slot
                            \/ (docs[i].slot = docs[j].slot /\ i <= j)
       IN << first >> \o SortBySlot(docs, ids \ {first})

\* findOne({ userId, slot, deletedAt: null })
FindInSlot(docs, userId, slot) ==
  LET ids == { i \in CharactersFind(docs, userId) : docs[i].slot = slot }
  IN IF ids = {} THEN None ELSE Some(CHOOSE i \in ids : \A j \in ids : i <= j)

\* findOne({ _id, userId, deletedAt: null })
FindOwned(docs, userId, id) ==
  IF id \in CharactersFind(docs, userId) THEN Some(id) ELSE None

\* A request to a character endpoint, with its handler's locals.
NewCharRequest(kind, body, id) ==
  [ kind |-> kind, pc |-> "session", body |-> body, id |-> id,
    userData |-> None, found |-> None, stamp |-> 0,
    status |-> 0, error |-> "", returned |-> <<>>,
    \* history, for the properties only
    signedIn |-> None, touched |-> {} ]

\* The handler returns its Response; an error answer keeps the request's
\* kind and history only.
CharRespond(rec, status, error) ==
  IF status \in {200, 201}
  THEN [ rec EXCEPT !.pc = "done", !.status = status, !.error = error ]
  ELSE [ NewCharRequest(rec.kind, None, None) EXCEPT
           !.pc = "done", !.status = status, !.error = error,
           !.signedIn = rec.signedIn, !.touched = rec.touched ]

\* JSON numbers a body's slot can be: 0 and 1, 4, and 1.5.
SlotValues ==
  { [ isInteger |-> TRUE, n |-> 0 ], [ isInteger |-> TRUE, n |-> 1 ],
    [ isInteger |-> TRUE, n |-> 4 ], [ isInteger |-> FALSE, n |-> 1 ] }

\* The bodies of POST /api/characters: a full one for each slot value, one
\* without its slot, one without its name, one with a class that is not in
\* validClasses.
CharBodies ==
  LET full(v) == [ slot |-> Some(v), name |-> "Ash", class_id |-> "HUmar",
                   texture_id |-> "texture" ]
  IN { full(v) : v \in SlotValues }
     \cup { [ full([ isInteger |-> TRUE, n |-> 0 ]) EXCEPT !.slot = None ],
            [ full([ isInteger |-> TRUE, n |-> 0 ]) EXCEPT !.name = "" ],
            [ full([ isInteger |-> TRUE, n |-> 0 ]) EXCEPT
                !.class_id = "HUnewmar" ] }

\* params.id of DELETE /api/characters/:id: the _id of a document, a
\* well-formed ObjectId of none, and a text that is no ObjectId.
CharIds ==
  { [ valid |-> TRUE, n |-> i ] : i \in 1..(Len(characters) + 1) }
    \cup { [ valid |-> FALSE, n |-> 0 ] }

\* A request arrives; its handler runs to the first await of getUserSession:
\* const userData = await session.get('user').
CharRequest ==
  /\ Len(charReqs) < MaxCharReq
  /\ \E rec \in { NewCharRequest("GET", None, None) }
               \cup { NewCharRequest("POST", Some(b), None) : b \in CharBodies }
               \cup { NewCharRequest("DELETE", None, Some(i)) : i \in CharIds } :
       charReqs' = Append(charReqs, [ rec EXCEPT !.userData = session ])
  /\ UNCHANGED << storageImpl, now, ticks, users, challenges, timers,
                  nextNonce, session, reqs, consumed, keyStore, nextKey,
                  client, keyCalls, tokens, verifications, page, sessionReads,
                  loggedOut, characters, indexes, mongo, connects >>

\* POST's checks of the body, in their order: the answer, or "" when the
\* body passes.
ValidateBody(body) ==
  IF body.slot = None \/ body.name = "" \/ body.class_id = ""
       \/ body.texture_id = ""
  THEN "Missing required fields: slot, name, class_id, texture_id"
  ELSE IF ~Val(body.slot).isInteger \/ Val(body.slot).n < 0
            \/ Val(body.slot).n > 3
  THEN "Slot must be an integer between 0 and 3"
  ELSE IF body.class_id \notin ValidClasses THEN "Invalid class_id"
  ELSE ""

\* DELETE's checks of params.id.
ValidateId(id) ==
  IF id = None THEN "Character ID is required"
  ELSE IF ~Val(id).valid THEN "Invalid character ID"
  ELSE ""

\* The rest of getUserSession, the 401, the checks of the request, and
\* await getCollection('characters') on the cached connection.
CharAuthorize(r) ==
  /\ charReqs[r].pc = "session"
  /\ LET rec == charReqs[r]
         userData == rec.userData
         invalid == IF rec.kind = "POST" THEN ValidateBody(Val(rec.body))
                    ELSE IF rec.kind = "DELETE" THEN ValidateId(rec.id)
                    ELSE ""
     IN IF ~IsSome(userData)
        THEN /\ charReqs' = [ charReqs EXCEPT ![r] =
                  CharRespond(rec, 401, "Unauthorized") ]
             /\ UNCHANGED session
        ELSE IF SessionExpired(Val(userData), now)
        THEN /\ session' = None
             /\ charReqs' = [ charReqs EXCEPT ![r] =
                  CharRespond(rec, 401, "Unauthorized") ]
        ELSE /\ UNCHANGED session
             /\ charReqs' = [ charReqs EXCEPT ![r] =
                  IF invalid # ""
                  THEN CharRespond([ rec EXCEPT !.signedIn = userData ],
                                   400, invalid)
                  ELSE [ rec EXCEPT !.pc = "find", !.signedIn = userData ] ]
  /\ UNCHANGED << storageImpl, now, ticks, users, challenges, timers,
                  nextNonce, reqs, consumed, keyStore, nextKey, client,
                  keyCalls, tokens, verifications, page, sessionReads,
                  loggedOut, characters, indexes, mongo, connects >>

\* The handler's query: GET's find(...).sort(...).toArray() and its 200;
\* POST's findOne of the slot, its 409, and the newCharacter it builds;
\* DELETE's findOne of the character, its 404, and the deletedAt it builds.
CharQuery(r) ==
  /\ charReqs[r].pc = "find"
  /\ LET rec == charReqs[r]
         userId == Val(rec.userData).fingerprint
     IN charReqs' = [ charReqs EXCEPT ![r] =
          IF rec.kind = "GET"
          THEN LET ids == CharactersFind(characters, userId)
               IN CharRespond([ rec EXCEPT
                    !.returned = SortBySlot(characters, ids),
                    !.touched = ids ], 200, "")
          ELSE IF rec.kind = "POST"
          THEN LET existingCharacter ==
                     FindInSlot(characters, userId, Val(Val(rec.body).slot).n)
               IN IF IsSome(existingCharacter)
                  THEN CharRespond([ rec EXCEPT
                         !.touched = { Val(existingCharacter) } ],
                         409, "Slot already occupied")
                  ELSE [ rec EXCEPT !.pc = "write", !.stamp = now ]
          ELSE LET character == FindOwned(characters, userId, Val(rec.id).n)
               IN IF ~IsSome(character)
                  THEN CharRespond(rec, 404, "Character not found")
                  ELSE [ rec EXCEPT !.pc = "write", !.found = character,
                                    !.touched = { Val(character) },
                                    !.stamp = now ] ]
  /\ UNCHANGED << storageImpl, now, ticks, users, challenges, timers,
                  nextNonce, session, reqs, consumed, keyStore, nextKey,
                  client, keyCalls, tokens, verifications, page, sessionReads,
                  loggedOut, characters, indexes, mongo, connects >>

\* The handler's write.  POST: insertOne(newCharacter), which rejects when
\* a unique index holds the document's key (the catch answers 500), and the
\* 201.  DELETE: updateOne({ _id }, { $set: { deletedAt } }), the 500 when
\* modifiedCount is 0 (the document already has that deletedAt), and the 200.
CharWrite(r) ==
  /\ charReqs[r].pc = "write"
  /\ LET rec == charReqs[r]
         userId == Val(rec.userData).fingerprint
     IN IF rec.kind = "POST"
        THEN LET newCharacter == NewCharacter(userId, Val(rec.body), rec.stamp)
             IN IF DuplicateKey(characters, indexes, newCharacter)
                THEN /\ UNCHANGED characters
                     /\ charReqs' = [ charReqs EXCEPT ![r] =
                          CharRespond(rec, 500, "Internal server error") ]
                ELSE /\ characters' = Append(characters, newCharacter)
                     /\ charReqs' = [ charReqs EXCEPT ![r] =
                          CharRespond([ rec EXCEPT
                            !.returned = << Len(characters) + 1 >>,
                            !.touched = { Len(characters) + 1 } ],
                            201, "") ]
        ELSE LET id == Val(rec.found)
                 modifiedCount ==
                   IF characters[id].deletedAt = Some(rec.stamp) THEN 0 ELSE 1
             IN /\ characters' = [ characters EXCEPT
                                     ![id].deletedAt = Some(rec.stamp) ]
                /\ charReqs' = [ charReqs EXCEPT ![r] =
                     IF modifiedCount = 0
                     THEN CharRespond(rec, 500, "Failed to delete character")
                     ELSE CharRespond(rec, 200, "") ]
  /\ UNCHANGED << storageImpl, now, ticks, users, challenges, timers,
                  nextNonce, session, reqs, consumed, keyStore, nextKey,
                  client, keyCalls, tokens, verifications, page, sessionReads,
                  loggedOut, indexes, mongo, connects >>

\* The character endpoints of a process that has connected: the database
\* and the browser's session are as earlier requests left them.  The
\* collection is empty or holds one character of either user; it has the
\* index initializeCollections makes, or none when that call failed.
InitCharacters ==
  /\ storageImpl = "mod"
  /\ now = 0
  /\ ticks = 0
  /\ users = EmptyMap
  /\ challenges = EmptyMap
  /\ timers = {}
  /\ nextNonce = 1
  /\ session \in {None} \cup { Some(CreateUserSession(f, 0)) : f \in Fingerprints }
  /\ reqs = <<>>
  /\ consumed = {}
  /\ keyStore = None
  /\ nextKey = 1
  /\ client = ClientIdle
  /\ keyCalls = <<>>
  /\ tokens = <<>>
  /\ verifications = <<>>
  /\ page = [ currentJwt |-> None, sessionStorage |-> None, sent |-> <<>>,
              authenticated |-> FALSE, retained |-> None ]
  /\ sessionReads = <<>>
  /\ loggedOut = FALSE
  /\ characters \in {<<>>}
       \cup { << NewCharacter(f, [ slot |-> Some([ isInteger |-> TRUE, n |-> 0 ]),
                                   name |-> "Ash", class_id |-> "HUmar",
                                   texture_id |-> "texture" ], 0) >> :
                f \in Fingerprints }
  /\ indexes \in { {}, { CreateIndex(ix) : ix \in CharactersIndexes } }
  /\ charReqs = <<>>
  /\ mongo = [ cachedClient |-> Some(1), cachedDb |-> Some(1),
               collectionsInitialized |-> (indexes # {}), clients |-> 1 ]
  /\ connects = <<>>

NextCharacters ==
  \/ LifetimeTick
  \/ Logout
  \/ CharRequest
  \/ \E r \in 1..Len(charReqs) : CharAuthorize(r)
  \/ \E r \in 1..Len(charReqs) : CharQuery(r)
  \/ \E r \in 1..Len(charReqs) : CharWrite(r)

SpecCharacters == InitCharacters /\ [][NextCharacters]_vars

\* ------------------------------------------------------- the connection
\* A call of connectToDatabase, with its locals.
NewConnect(pc, mongoClient, result) ==
  [ pc |-> pc, client |-> mongoClient, result |-> result,
    \* history: collectionsInitialized when the call returned
    initialized |-> FALSE ]

\* connectToDatabase(), directly or from getCollection, up to its first
\* await: the cached Db when both cachedClient and cachedDb are set,
\* otherwise new MongoClient(MONGODB_URI) and await client.connect().
ConnectCall ==
  /\ Len(connects) < MaxConnects
  /\ IF IsSome(mongo.cachedClient) /\ IsSome(mongo.cachedDb)
     THEN /\ connects' = Append(connects,
               [ NewConnect("done", None, mongo.cachedDb) EXCEPT
                   !.initialized = mongo.collectionsInitialized ])
          /\ UNCHANGED mongo
     ELSE /\ mongo' = [ mongo EXCEPT !.clients = @ + 1 ]
          /\ connects' = Append(connects,
               NewConnect("connecting", Some(mongo.clients + 1), None))
  /\ UNCHANGED << storageImpl, now, ticks, users, challenges, timers,
                  nextNonce, session, reqs, consumed, keyStore, nextKey,
                  client, keyCalls, tokens, verifications, page, sessionReads,
                  loggedOut, characters, indexes, charReqs >>

\* client.connect() resolves: const db = client.db(DB_NAME), the Db of
\* that client; cachedClient = client; cachedDb = db; then the call
\* returns db, or awaits initializeCollections(db) first when
\* collectionsInitialized is false.
ConnectResolve(c) ==
  /\ connects[c].pc = "connecting"
  /\ LET db == connects[c].client
     IN /\ mongo' = [ mongo EXCEPT !.cachedClient = connects[c].client,
                                   !.cachedDb = db ]
        /\ connects' = [ connects EXCEPT ![c] =
             IF ~mongo.collectionsInitialized
             THEN [ @ EXCEPT !.pc = "initializing", !.result = db ]
             ELSE [ @ EXCEPT !.pc = "done", !.result = db,
                             !.initialized = TRUE ] ]
  /\ UNCHANGED << storageImpl, now, ticks, users, challenges, timers,
                  nextNonce, session, reqs, consumed, keyStore, nextKey,
                  client, keyCalls, tokens, verifications, page, sessionReads,
                  loggedOut, characters, indexes, charReqs >>

\* client.connect() rejects, and the call with it.
ConnectReject(c) ==
  /\ connects[c].pc = "connecting"
  /\ connects' = [ connects EXCEPT ![c].pc = "failed" ]
  /\ UNCHANGED << storageImpl, now, ticks, users, challenges, timers,
                  nextNonce, session, reqs, consumed, keyStore, nextKey,
                  client, keyCalls, tokens, verifications, page, sessionReads,
                  loggedOut, characters, indexes, charReqs, mongo >>

\* initializeCollections(db) resolves, having made the indexes:
\* collectionsInitialized = true; return db.
InitializeResolve(c) ==
  /\ connects[c].pc = "initializing"
  /\ indexes' = indexes \cup { CreateIndex(ix) : ix \in CharactersIndexes }
  /\ mongo' = [ mongo EXCEPT !.collectionsInitialized = TRUE ]
  /\ connects' = [ connects EXCEPT ![c].pc = "done",
                                   ![c].initialized = TRUE ]
  /\ UNCHANGED << storageImpl, now, ticks, users, challenges, timers,
                  nextNonce, session, reqs, consumed, keyStore, nextKey,
                  client, keyCalls, tokens, verifications, page, sessionReads,
                  loggedOut, characters, charReqs >>

\* initializeCollections(db) rejects, before or after it made the
\* characters' indexes; the catch logs the error and the call returns db.
InitializeReject(c) ==
  /\ connects[c].pc = "initializing"
  /\ indexes' \in { indexes,
                    indexes \cup { CreateIndex(ix) : ix \in CharactersIndexes } }
  /\ connects' = [ connects EXCEPT ![c].pc = "done",
                                   ![c].initialized =
                                     mongo.collectionsInitialized ]
  /\ UNCHANGED << storageImpl, now, ticks, users, challenges, timers,
                  nextNonce, session, reqs, consumed, keyStore, nextKey,
                  client, keyCalls, tokens, verifications, page, sessionReads,
                  loggedOut, characters, charReqs, mongo >>

NextConnection ==
  \/ ConnectCall
  \/ \E c \in 1..Len(connects) : ConnectResolve(c)
  \/ \E c \in 1..Len(connects) : ConnectReject(c)
  \/ \E c \in 1..Len(connects) : InitializeResolve(c)
  \/ \E c \in 1..Len(connects) : InitializeReject(c)

SpecConnection == InitStoreFailure /\ [][NextConnection]_vars

\* ------------------------------------------------------------------- next
Next ==
  \/ Tick
  \/ TimerFire
  \/ EnvChallenge
  \/ EnvAuthenticate
  \/ \E r \in 1..Len(reqs) : ChallengeRegister(r)
  \/ \E r \in 1..Len(reqs) : ChallengeStore(r)
  \/ \E r \in 1..Len(reqs) : AuthGetChallenge(r)
  \/ \E r \in 1..Len(reqs) : AuthConsume(r)
  \/ \E r \in 1..Len(reqs) : AuthVerify(r)
  \/ ClientStart
  \/ ClientSign
  \/ ClientFinish

Spec == Init /\ [][Next]_vars

\* ============================================================= properties
Requests == 1..Len(reqs)

IsAuth(r) == reqs[r].kind = "authenticate"
IsChallenge(r) == reqs[r].kind = "challenge"
Answered(r, status) == IsDone(reqs[r]) /\ reqs[r].status = status

\* C1: single use under a race.  Two authenticate requests that read the
\* same nonce never both answer 200.
C1_NoTwoSuccessesOnOneNonce ==
  \A r1 \in Requests, r2 \in Requests :
    ( /\ r1 # r2
      /\ IsAuth(r1) /\ Answered(r1, 200)
      /\ IsAuth(r2) /\ Answered(r2, 200) )
    => reqs[r1].challenge # reqs[r2].challenge

\* C2: every verification attempt is single-use.  Once an authenticate
\* request for X has deleted X's challenge and gone on to verify, X has no
\* stored challenge until a challenge request stores a new one, and every
\* authenticate request that reads the store in between is answered
\* 401 'No challenge found', whatever its signature.
C2_VerificationIsSingleUse ==
  /\ \A fingerprint \in consumed : ~MapHas(challenges, fingerprint)
  /\ \A r \in Requests :
       (IsAuth(r) /\ IsDone(reqs[r]) /\ reqs[r].afterUse)
       => (reqs[r].status = 401 /\ reqs[r].error = "No challenge found")

\* A request was answered after it read the store behind a verification
\* that had used the challenge up.
C2_Witness ==
  \E r \in Requests : IsAuth(r) /\ IsDone(reqs[r]) /\ reqs[r].afterUse

\* C3: authentication soundness.  A 200 with a token (and the server
\* session) is only ever produced by a request whose signature is valid,
\* under the public key of X's registration record, for the nonce the
\* request read from the challenge store; a request that reaches the
\* verification with any other signature is answered 401 'Invalid
\* signature', with no token and the session untouched.
C3_Step ==
  /\ \A r \in 1..Len(reqs') :
       (reqs'[r].kind = "authenticate" /\ reqs'[r].status = 200)
       => /\ IsSome(reqs'[r].jwt)
          /\ IsSome(reqs'[r].challengeData)
          /\ reqs'[r].challenge = Some(Val(reqs'[r].challengeData).challenge)
          /\ MapHas(users', reqs'[r].fingerprint)
          /\ users'[reqs'[r].fingerprint].publicKey = Val(reqs'[r].user).publicKey
          /\ Val(reqs'[r].signature) \in
               ValidSignatures(Val(reqs'[r].user).publicKey,
                               Val(reqs'[r].challenge))
  /\ \A r \in Requests :
       ( /\ IsAuth(r) /\ reqs[r].pc = "a_deleted" /\ IsDone(reqs'[r])
         /\ Val(reqs[r].signature) \notin
              ValidSignatures(Val(reqs[r].user).publicKey, Val(reqs[r].challenge)) )
       => /\ reqs'[r].status = 401
          /\ reqs'[r].error = "Invalid signature"
          /\ ~IsSome(reqs'[r].jwt)
          /\ session' = session
  /\ \A r \in Requests :
       (IsAuth(r) /\ ~IsDone(reqs[r]) /\ reqs'[r].status = 200)
       => session' = Some([ fingerprint |-> reqs[r].fingerprint,
                            authenticatedAt |-> now',
                            expiresAt |-> now' + SessionLifetime * MsPerSecond ])

C3_AuthenticationSoundness == [][C3_Step]_vars

\* One request was answered 200 and another 401 'Invalid signature'.
C3_Witness ==
  /\ \E r \in Requests : IsAuth(r) /\ Answered(r, 200)
  /\ \E r \in Requests : IsAuth(r) /\ IsDone(reqs[r])
                         /\ reqs[r].error = "Invalid signature"

\* C4: expired challenges never verify.  No authenticate request answers
\* 200 when the clock its handler read was more than 120000 ms past the
\* timestamp of the challenge it read, under either challenge store.
C4_ExpiredNeverVerifies ==
  \A r \in Requests :
    (IsAuth(r) /\ Answered(r, 200))
    => /\ IsSome(reqs[r].challengeData)
       /\ reqs[r].readNow - Val(reqs[r].challengeData).timestamp <= ChallengeTTL

\* One request found its challenge expired, and another read the clock
\* inside the lifetime and was answered 200.
C4_Witness ==
  /\ \E r \in Requests : IsAuth(r) /\ IsDone(reqs[r])
                         /\ reqs[r].error = "Challenge expired"
  /\ \E r \in Requests : IsAuth(r) /\ Answered(r, 200)

\* C5: an authenticate request that reads the store when the entry stored
\* for X is past its TTL, with a valid signature over that entry's nonce, is
\* answered 401 'Challenge expired', and the entry is gone from the store
\* when it answers.
C5_ExpiredIsAnsweredExpired ==
  \A r \in Requests :
    (IsAuth(r) /\ IsDone(reqs[r]) /\ IsSome(reqs[r].staleNonce))
    => /\ reqs[r].status = 401
       /\ reqs[r].error = "Challenge expired"
       /\ \A fingerprint \in DOMAIN challenges :
            challenges[fingerprint].challenge # Val(reqs[r].staleNonce)

\* C6: overwrite semantics.  At most one challenge is stored per
\* identifier, and no authenticate request answers 200 on a nonce of X after
\* a challenge request for X has completed with a newer nonce.
C6_OverwriteInvalidatesOlderNonce ==
  /\ \A f1 \in DOMAIN challenges, f2 \in DOMAIN challenges :
       challenges[f1].challenge = challenges[f2].challenge => f1 = f2
  /\ \A r \in Requests :
       (IsAuth(r) /\ Answered(r, 200)) => ~reqs[r].superseded

\* C7: identity spoofing rejected.  A challenge request with a missing
\* identifier, a missing public key, or an identifier that is not the one
\* derived from the public key is answered 400 on arrival and changes
\* neither the challenge store nor the registration store.
DerivedIdentifiers(fullPublicKey) ==
  { FingerprintOf(k) : k \in { j \in KeyIds : PublicKeyOf(j) = fullPublicKey } }

Spoofed(rec) ==
  \/ rec.fingerprint = Missing
  \/ rec.fullPublicKey = Missing
  \/ rec.fingerprint \notin DerivedIdentifiers(rec.fullPublicKey)

C7_Step ==
  ( /\ Len(reqs') = Len(reqs) + 1
    /\ reqs'[Len(reqs')].kind = "challenge"
    /\ Spoofed(reqs'[Len(reqs')]) )
  => /\ IsDone(reqs'[Len(reqs')])
     /\ reqs'[Len(reqs')].status = 400
     /\ users' = users
     /\ challenges' = challenges
     /\ timers' = timers

C8_RoundTrip ==
  ( /\ client.authReq # 0
    /\ IsDone(reqs[client.authReq])
    /\ client.quiet
    /\ now <= Val(reqs[client.chalReq].challengeData).timestamp + ChallengeTTL )
  => /\ reqs[client.authReq].status = 200
     /\ Val(reqs[client.authReq].jwt).sub = client.fingerprint
     /\ client.fingerprint = FingerprintOf(Val(client.keyPair))

\* C9: auto-registration.  A stored challenge always has a registration
\* record; a challenge request that got past the registration step has left
\* the record {identifier, publicKey, createdAt} of its identifier; an
\* authenticate request that arrives after a completed challenge request for
\* its identifier is never answered 'User not found', and is answered 200
\* when it reaches the verification with a valid signature.
C9_Step ==
  /\ \A fingerprint \in DOMAIN challenges' : MapHas(users', fingerprint)
  /\ \A r \in 1..Len(reqs') :
       ( /\ reqs'[r].kind = "challenge"
         /\ \/ reqs'[r].pc = "c_registered"
            \/ reqs'[r].status = 200 )
       => /\ MapHas(users', reqs'[r].fingerprint)
          /\ users'[reqs'[r].fingerprint].fingerprint = reqs'[r].fingerprint
          /\ users'[reqs'[r].fingerprint].publicKey = reqs'[r].fullPublicKey
          /\ users'[reqs'[r].fingerprint].createdAt <= now'
  /\ \A r \in 1..Len(reqs') :
       (reqs'[r].kind = "authenticate" /\ reqs'[r].followsChallenge)
       => reqs'[r].error # "User not found"
  /\ \A r \in Requests :
       ( /\ IsAuth(r) /\ reqs[r].pc = "a_deleted" /\ IsDone(reqs'[r])
         /\ Val(reqs[r].signature) \in
              ValidSignatures(Val(reqs[r].user).publicKey, Val(reqs[r].challenge)) )
       => reqs'[r].status = 200

C9_AutoRegistration == [][C9_Step]_vars

\* A first challenge request registered its identifier and a later
\* authenticate request for it was answered 200.
C9_Witness ==
  \E c \in Requests, a \in Requests :
    /\ IsChallenge(c) /\ Answered(c, 200)
    /\ users[reqs[c].fingerprint].publicKey = reqs[c].fullPublicKey
    /\ IsAuth(a) /\ Answered(a, 200) /\ reqs[a].followsChallenge
    /\ reqs[a].fingerprint = reqs[c].fingerprint

\* C10: every token has sub equal to the identifier it was issued for and
\* exp exactly iat + 3600.
C10_TokenLifetimeExact ==
  \A r \in Requests :
    (IsAuth(r) /\ Answered(r, 200))
    => /\ Val(reqs[r].jwt).sub = reqs[r].fingerprint
       /\ Val(reqs[r].jwt).exp = Val(reqs[r].jwt).iat + JwtLifetime

\* C13: the authenticate endpoint checks, in this order, the registration
\* record, the stored challenge, its expiry and the signature, and answers
\* 401 in each failing case.  A request for an identifier that has no record
\* when the handler looks it up is answered 'User not found' and the
\* challenge store is neither read nor changed by that step; a request
\* without a challenge is answered 'No challenge found' whatever its
\* signature; a request whose challenge is past its lifetime is answered
\* 'Challenge expired' whatever its signature; only then is the signature
\* verified.
C13_Step ==
  /\ ( /\ Len(reqs') = Len(reqs) + 1
       /\ reqs'[Len(reqs')].kind = "authenticate"
       /\ reqs'[Len(reqs')].fingerprint # Missing
       /\ reqs'[Len(reqs')].pc # "done"
       /\ ~MapHas(users, reqs'[Len(reqs')].fingerprint) )
     => /\ reqs'[Len(reqs')].pc = "a_user"
        /\ ~IsSome(reqs'[Len(reqs')].user)
  /\ \A r \in Requests :
       (IsAuth(r) /\ reqs'[r] # reqs[r])
       => CASE reqs[r].pc = "a_user" /\ ~IsSome(reqs[r].user) ->
                 /\ Answered(r, 401)' /\ reqs'[r].error = "User not found"
                 /\ challenges' = challenges /\ timers' = timers
            [] reqs[r].pc = "a_user" /\ IsSome(reqs[r].user) ->
                 reqs'[r].pc = "a_challenge"
            [] reqs[r].pc = "a_challenge" /\ ~IsSome(reqs[r].challengeData) ->
                 Answered(r, 401)' /\ reqs'[r].error = "No challenge found"
            [] /\ reqs[r].pc = "a_challenge" /\ IsSome(reqs[r].challengeData)
               /\ now - Val(reqs[r].challengeData).timestamp > ChallengeTTL ->
                 Answered(r, 401)' /\ reqs'[r].error = "Challenge expired"
            [] /\ reqs[r].pc = "a_challenge" /\ IsSome(reqs[r].challengeData)
               /\ now - Val(reqs[r].challengeData).timestamp <= ChallengeTTL ->
                 reqs'[r].pc = "a_deleted"
            [] reqs[r].pc = "a_deleted" ->
                 \/ Answered(r, 200)'
                 \/ Answered(r, 401)' /\ reqs'[r].error = "Invalid signature"
            [] OTHER -> FALSE
  /\ \A r \in 1..Len(reqs') :
       (reqs'[r].kind = "authenticate" /\ reqs'[r].pc = "done")
       => \/ reqs'[r].status = 200 /\ reqs'[r].error = ""
          \/ reqs'[r].status = 400
             /\ reqs'[r].error = "Missing fingerprint or signature"
          \/ reqs'[r].status = 401
             /\ reqs'[r].error \in { "User not found", "No challenge found",
                                    "Challenge expired", "Invalid signature" }

C13_CheckOrder == [][C13_Step]_vars

\* One request was answered 'User not found' while a challenge was stored,
\* and another was answered 'Challenge expired'.
C13_Witness ==
  /\ \E r \in Requests : IsAuth(r) /\ Answered(r, 401)
                         /\ reqs[r].error = "User not found"
  /\ \E r \in Requests : IsAuth(r) /\ Answered(r, 401)
                         /\ reqs[r].error = "Challenge expired"

\* C15: registration records are immutable.  A step never removes a
\* registration record and never changes the publicKey or the createdAt of
\* one that exists.
C15_Step ==
  \A fingerprint \in DOMAIN users :
    /\ MapHas(users', fingerprint)
    /\ users'[fingerprint].publicKey = users[fingerprint].publicKey
    /\ users'[fingerprint].createdAt = users[fingerprint].createdAt

C15_RecordsImmutable == [][C15_Step]_vars

\* ------------------------------------------------ properties of the key manager
KeyCalls == 1..Len(keyCalls)

Returned(c) == keyCalls[c].pc \in {"returned", "details"}

\* C16: key stability.  When the calls of getOrCreateKey follow one another
\* (none starts while another is running), a call that starts after a call
\* has returned a pair K and that returns a pair returns K, and the slot
\* holds K, whether or not its read of the store succeeded.
C16_KeyStability ==
  (\A c \in KeyCalls : keyCalls[c].alone)
  => \A c \in KeyCalls :
       (Returned(c) /\ keyCalls[c].earlier # {})
       => /\ keyCalls[c].earlier = { Val(keyCalls[c].result) }
          /\ keyStore = keyCalls[c].result

\* C17: getOrCreateKey never returns a pair that it neither read from the
\* store nor wrote to it, and a call whose read of the store failed does not
\* return a pair: it is rejected.
C17_StoreErrorsAreReported ==
  \A c \in KeyCalls :
    Returned(c)
    => /\ ~keyCalls[c].readFailed
       /\ \/ IsSome(keyCalls[c].existingKey)
             /\ keyCalls[c].result = keyCalls[c].existingKey
          \/ IsSome(keyCalls[c].keyPair)
             /\ keyCalls[c].result = keyCalls[c].keyPair

\* C18: fingerprint derivation is deterministic and of fixed length.  The
\* fingerprint getPublicKeyDetails returns for a key is the base64 text of
\* the first 30 bytes of the SHA-256 digest of the key's SPKI encoding, it is
\* 40 characters of the base64 alphabet with no padding, and two calls for
\* the same key return the same fingerprint.
C18_FingerprintFixedLength ==
  /\ \A c \in KeyCalls :
       IsSome(keyCalls[c].details)
       => LET fingerprint == Val(keyCalls[c].details).fingerprint
              k == Val(keyCalls[c].result)
          IN /\ Len(fingerprint) = 40
             /\ \A i \in 1..Len(fingerprint) : IsB64Char(fingerprint[i])
             /\ fingerprint =
                  Base64Encode(SubSeq(Sha256(ExportSpki(k)), 1, 30))
             /\ k = 1 =>
                  fingerprint =
                    << "w","d","I","I","O","H","g","6","L","P","W","Y","o",
                       "+","m","L","v","s","D","I","U","L","g","2","4","g",
                       "v","l","U","M","e","Y","8","Y","c","C","z","y","X",
                       "g" >>
  /\ \A c \in KeyCalls, d \in KeyCalls :
       ( /\ IsSome(keyCalls[c].details) /\ IsSome(keyCalls[d].details)
         /\ keyCalls[c].result = keyCalls[d].result )
       => keyCalls[c].details = keyCalls[d].details

\* Two calls returned the same key pair and its details were derived in
\* both, and a third derived those of another pair.
C18_Witness ==
  \E c \in KeyCalls, d \in KeyCalls, e \in KeyCalls :
    /\ c # d
    /\ IsSome(keyCalls[c].details) /\ IsSome(keyCalls[d].details)
    /\ IsSome(keyCalls[e].details)
    /\ keyCalls[c].result = keyCalls[d].result
    /\ keyCalls[e].result # keyCalls[c].result

\* ------------------------------------------- properties under store failures
\* C11: no error path leaves a stale challenge usable.  When an authenticate
\* request that read a stored challenge answers anything but 200, the
\* challenge it read is no longer in the store.
C11_Step ==
  \A r \in Requests :
    ( /\ IsAuth(r) /\ IsSome(reqs[r].challengeData)
      /\ ~IsDone(reqs[r]) /\ IsDone(reqs'[r])
      /\ reqs'[r].status # 200 )
    => \A fingerprint \in DOMAIN challenges' :
         challenges'[fingerprint].challenge
           # Val(reqs[r].challengeData).challenge

C11_NoStaleChallengeAfterError == [][C11_Step]_vars

\* C12: a failed authenticate request issues nothing.  An authenticate
\* request answered 400, 401 or 500 returns no token and its answering step
\* leaves the server session as it was; the session changes only in a step
\* that answers an authenticate request with 200; and the registration store
\* changes only in the registration step of a challenge request.
C12_Step ==
  /\ \A r \in 1..Len(reqs') :
       ( /\ reqs'[r].kind = "authenticate" /\ IsDone(reqs'[r])
         /\ reqs'[r].status # 200 )
       => /\ reqs'[r].status \in {400, 401, 500}
          /\ ~IsSome(reqs'[r].jwt)
          /\ (r > Len(reqs) \/ ~IsDone(reqs[r])) => session' = session
  /\ session' # session
     => \E r \in Requests :
          /\ IsAuth(r) /\ ~IsDone(reqs[r])
          /\ IsDone(reqs'[r]) /\ reqs'[r].status = 200
          /\ IsSome(reqs'[r].jwt)
          /\ Val(session').fingerprint = reqs[r].fingerprint
  /\ users' # users
     => \E r \in Requests :
          /\ IsChallenge(r) /\ reqs[r].pc = "c_user"
          /\ reqs'[r].pc = "c_registered"

C12_FailedAuthenticateIssuesNothing == [][C12_Step]_vars

\* An authenticate request that followed a challenge request was answered
\* 500, another was answered 401, and no session exists.
C12_Witness ==
  /\ session = None
  /\ \E r \in Requests :
       /\ IsAuth(r) /\ Answered(r, 500) /\ reqs[r].followsChallenge
       /\ ~MapHas(challenges, reqs[r].fingerprint)
  /\ \E r \in Requests : IsAuth(r) /\ Answered(r, 401)

\* C14: a store call that rejects is answered 500.  A request in which a
\* call rejected is answered 500 'Internal server error', never 200, 400 or
\* 401; only such requests are answered 500; and a request that has
\* answered never answers again.
C14_Step ==
  /\ \A r \in 1..Len(reqs') :
       /\ reqs'[r].threw
          => /\ IsDone(reqs'[r])
             /\ reqs'[r].status = 500
             /\ reqs'[r].error = "Internal server error"
       /\ reqs'[r].status = 500 => reqs'[r].threw
  /\ \A r \in Requests : IsDone(reqs[r]) => reqs'[r] = reqs[r]

C14_StoreFailureIs500 == [][C14_Step]_vars

\* A challenge request and an authenticate request were both answered 500,
\* and a third request was answered 200.
C14_Witness ==
  /\ \E r \in Requests : IsChallenge(r) /\ Answered(r, 500)
  /\ \E r \in Requests : IsAuth(r) /\ Answered(r, 500)
  /\ \E r \in Requests : Answered(r, 200)

\* ------------------------------------------ properties under malformed fields
\* C19: client and server derive the same identifier.  verifyFingerprint
\* accepts the fingerprint and encoded key that getPublicKeyDetails produces
\* for a key, rejects every fingerprint that is not the base64 text of the
\* first 30 bytes of the digest of the bytes the key text decodes to, and
\* answers false (the request is answered 400, not 500) for a key field
\* that cannot be decoded at all.
C19_Step ==
  ( /\ Len(reqs') = Len(reqs) + 1
    /\ reqs'[Len(reqs')].kind = "challenge"
    /\ reqs'[Len(reqs')].fingerprint # Missing
    /\ reqs'[Len(reqs')].fullPublicKey # Missing )
  => LET rec == reqs'[Len(reqs')]
         passed == rec.pc = "c_user"
     IN /\ \/ passed
           \/ /\ IsDone(rec) /\ rec.status = 400
              /\ rec.error = "Fingerprint does not match public key"
        /\ (\E k \in KeyIds :
              /\ rec.fingerprint = GetPublicKeyDetails(k).fingerprint
              /\ rec.fullPublicKey = GetPublicKeyDetails(k).fullPublicKey)
           => passed
        /\ rec.fullPublicKey = NotAString => ~passed
        /\ ( /\ rec.fullPublicKey # NotAString
             /\ rec.fingerprint #
                  Base64Encode(SubSeq(
                    Sha256(Base64ToArrayBuffer(rec.fullPublicKey)), 1, 30)) )
           => ~passed
        /\ (passed /\ rec.fullPublicKey = JunkPublicKey)
           => rec.fingerprint =
                << "4","7","D","E","Q","p","j","8","H","B","S","a","+","/",
                   "T","I","m","W","+","5","J","C","e","u","Q","e","R","k",
                   "m","5","N","M","p","J","W","Z","G","3","h","S" >>

C19_SameDerivation == [][C19_Step]_vars

\* The pair of the client's first key was accepted, the same fingerprint
\* with another key was rejected, and a key field that is not a string was
\* rejected.
C19_Witness ==
  /\ \E r \in Requests :
       /\ IsChallenge(r) /\ Answered(r, 200)
       /\ reqs[r].fingerprint = FingerprintOf(1)
       /\ reqs[r].fullPublicKey = PublicKeyOf(1)
  /\ \E r \in Requests :
       /\ IsChallenge(r) /\ Answered(r, 400)
       /\ reqs[r].fingerprint = FingerprintOf(1)
       /\ reqs[r].fullPublicKey = PublicKeyOf(2)
  /\ \E r \in Requests :
       /\ IsChallenge(r) /\ Answered(r, 400)
       /\ reqs[r].fullPublicKey = NotAString

\* C20: verifySignature is total and changes nothing.  For every stored
\* public key, nonce and submitted signature it answers a boolean; the
\* verification step of the handler changes no store and ends in 200 or in
\* 401 'Invalid signature'; and it answers false when the stored public key
\* cannot be imported or the signature cannot be decoded.
C20_Step ==
  \A r \in Requests :
    (IsAuth(r) /\ reqs[r].pc = "a_deleted" /\ reqs'[r] # reqs[r])
    => LET publicKey == Val(reqs[r].user).publicKey
           signature == Val(reqs[r].signature)
           invalid == /\ Answered(r, 401)'
                      /\ reqs'[r].error = "Invalid signature"
       IN /\ VerifySignature(publicKey, Val(reqs[r].challenge), signature)
               \in BOOLEAN
          /\ users' = users /\ challenges' = challenges /\ timers' = timers
          /\ Answered(r, 200)' \/ invalid
          /\ ~IsSome(ImportKey(Base64ToArrayBuffer(publicKey))) => invalid
          /\ signature = UndecodableSignature => invalid

C20_VerifySignatureTotal == [][C20_Step]_vars

\* An identifier registered with a public key that cannot be imported got a
\* challenge, and an authenticate request for it was answered 401 'Invalid
\* signature'.
C20_Witness ==
  /\ MapHas(users, JunkFingerprint)
  /\ users[JunkFingerprint].publicKey = JunkPublicKey
  /\ \E r \in Requests :
       /\ IsAuth(r) /\ Answered(r, 401)
       /\ reqs[r].fingerprint = JunkFingerprint
       /\ reqs[r].error = "Invalid signature"

\* A step in which a callback of setTimeout ran.
TimerFired == timers' # timers /\ timers' \subseteq timers

\* C25: the background cleanup agrees with the expiry predicate.  The timer
\* scheduled by challenges.set removes a stored challenge only if that
\* challenge is expired (now - timestamp > expiresIn); a challenge re-issued
\* before the previous one expired is not removed by a timer before its own
\* timestamp + expiresIn.
C25_Step ==
  \A fingerprint \in DOMAIN challenges :
    (TimerFired /\ ~MapHas(challenges', fingerprint))
    => Expired(now, challenges[fingerprint])

C25_CleanupAgreesWithExpiry == [][C25_Step]_vars

\* The second half of the statement alone: a timer never removes a challenge
\* before that challenge's own timestamp + expiresIn.
C25_ReissuedStep ==
  \A fingerprint \in DOMAIN challenges :
    (TimerFired /\ ~MapHas(challenges', fingerprint))
    => now >= challenges[fingerprint].timestamp
                + challenges[fingerprint].expiresIn

C25_ReissuedSurvives == [][C25_ReissuedStep]_vars

\* C26: an authenticate request deletes only the challenge it read.  When a
\* challenge request for the same identifier has stored a new nonce between
\* the authenticate request's read of the store and its delete, the new
\* nonce is still stored after the delete.
C26_Step ==
  \A r \in Requests :
    ( /\ IsAuth(r) /\ reqs[r].pc = "a_challenge" /\ reqs'[r].pc # "a_challenge"
      /\ IsSome(reqs[r].challengeData)
      /\ MapHas(challenges, reqs[r].fingerprint)
      /\ challenges[reqs[r].fingerprint].challenge
           # Val(reqs[r].challengeData).challenge )
    => /\ MapHas(challenges', reqs[r].fingerprint)
       /\ challenges'[reqs[r].fingerprint] = challenges[reqs[r].fingerprint]

C26_DeletesOnlyWhatItRead == [][C26_Step]_vars

\* The identifier a public key text stands for: base64 of the first 30 bytes
\* of the SHA-256 digest of the bytes the text decodes to.
DerivedIdentifier(fullPublicKey) ==
  Base64Encode(SubSeq(Sha256(Base64ToArrayBuffer(fullPublicKey)),
                      1, FingerprintBytes))

\* C27: identity binding.  In every reachable state, the registration record
\* stored under identifier X has fingerprint = X and a publicKey whose
\* derived identifier equals X.
C27_IdentityBinding ==
  \A x \in DOMAIN users :
    /\ users[x].fingerprint = x
    /\ users[x].publicKey # NotAString
    /\ DerivedIdentifier(users[x].publicKey) = x

\* Records are stored for the client's key text, for the same text without
\* its padding and for a text that is no key at all, while a request that
\* named an identifier its key does not hash to was turned away.
C27_Witness ==
  /\ \E x \in DOMAIN users : users[x].publicKey = UnpaddedPublicKey
  /\ \E x \in DOMAIN users : users[x].publicKey = JunkPublicKey
  /\ \E r \in Requests :
       /\ IsChallenge(r) /\ Answered(r, 400)
       /\ reqs[r].error = "Fingerprint does not match public key"

\* C28: in every reachable state, each identifier that has a stored
\* challenge also has a registration record, and the stored challenge's
\* fingerprint field equals the key it is stored under.
C28_ChallengeHasRecord ==
  \A x \in DOMAIN challenges :
    /\ MapHas(users, x)
    /\ challenges[x].fingerprint = x

\* Challenges are stored for two identifiers at once.
C28_Witness ==
  \E x \in DOMAIN challenges, y \in DOMAIN challenges :
    x # y /\ challenges[x].challenge # challenges[y].challenge

\* C29: one key pair per device under concurrency.  When calls of
\* getOrCreateKey overlap on a profile with no stored key and every read of
\* the store succeeds, every call that returns gives the same pair, and that
\* pair is the one the store holds.
C29_OnePairUnderConcurrency ==
  (\A c \in KeyCalls : ~keyCalls[c].readFailed)
  => \A c \in KeyCalls :
       Returned(c) => keyCalls[c].result = keyStore

\* C23: client protocol order.  Within one call of authenticate() the steps
\* occur in the order key pair obtained, challenge request sent, nonce
\* signed, authenticate request sent, token returned; the authenticate
\* request is sent only after a 2xx challenge response; at most one
\* challenge request and one authenticate request are sent per call; on a
\* rejected response the call fails without retrying and without a token.
C23_Step ==
  /\ client'.pc # client.pc
     => << client.pc, client'.pc >> \in
          { << "idle", "awaitingChallenge" >>,
            << "awaitingChallenge", "awaitingAuth" >>,
            << "awaitingChallenge", "failed" >>,
            << "awaitingAuth", "authenticated" >>,
            << "awaitingAuth", "failed" >> }
  \* the key pair and its details come first, then the challenge request
  /\ (client.pc = "idle" /\ client'.pc = "awaitingChallenge")
     => /\ IsSome(client'.keyPair)
        /\ client'.keyPair = keyStore'
        /\ client'.fingerprint = FingerprintOf(Val(client'.keyPair))
        /\ client'.fullPublicKey = PublicKeyOf(Val(client'.keyPair))
        /\ Len(reqs') = Len(reqs) + 1
        /\ client'.chalReq = Len(reqs')
        /\ reqs'[client'.chalReq].kind = "challenge"
        /\ reqs'[client'.chalReq].fingerprint = client'.fingerprint
        /\ reqs'[client'.chalReq].fullPublicKey = client'.fullPublicKey
        /\ client'.authReq = 0
  \* the nonce of the 2xx response is signed, then sent
  /\ (client.pc = "awaitingChallenge" /\ client'.pc = "awaitingAuth")
     => /\ Answered(client.chalReq, 200)
        /\ Len(reqs') = Len(reqs) + 1
        /\ client'.authReq = Len(reqs')
        /\ client'.authReq > client.chalReq
        /\ reqs'[client'.authReq].kind = "authenticate"
        /\ reqs'[client'.authReq].fingerprint = client.fingerprint
        /\ reqs'[client'.authReq].signature =
             Some(SignData(Val(client.keyPair),
                           Val(reqs[client.chalReq].challenge)))
  \* a rejected response ends the call: nothing more is sent, no token
  /\ (client.pc # "failed" /\ client'.pc = "failed")
     => /\ reqs' = reqs
        /\ ~IsSome(client'.jwt)
        /\ client.pc = "awaitingChallenge"
           => (IsDone(reqs[client.chalReq]) /\ reqs[client.chalReq].status # 200
               /\ client'.authReq = 0)
        /\ client.pc = "awaitingAuth"
           => (IsDone(reqs[client.authReq]) /\ reqs[client.authReq].status # 200)
  \* the token is returned last, and it is the one of the 2xx response
  /\ (client.pc = "awaitingAuth" /\ client'.pc = "authenticated")
     => /\ Answered(client.authReq, 200)
        /\ reqs' = reqs
        /\ IsSome(client'.jwt)
        /\ client'.jwt = reqs[client.authReq].jwt
  /\ IsSome(client'.jwt) => client'.pc = "authenticated"
  \* one challenge request and one authenticate request per call
  /\ client.chalReq # 0
     => (client'.chalReq = client.chalReq /\ client'.keyPair = client.keyPair)
  /\ client.authReq # 0 => client'.authReq = client.authReq
  /\ client.pc \in {"failed", "authenticated"}
     => (client'.pc = client.pc /\ client'.jwt = client.jwt)

C23_ClientProtocolOrder == [][C23_Step]_vars

\* One call went through all five steps and returned the token.
C23_Witness ==
  /\ client.pc = "authenticated"
  /\ IsSome(client.jwt)
  /\ 0 < client.chalReq /\ client.chalReq < client.authReq

Verifications == 1..Len(verifications)

\* The token of a verification was signed by generateJWT with the server's
\* secret.
ServerSigned(v) ==
  verifications[v].token.wellFormed
  /\ verifications[v].token.secret = JwtSecret

\* C21: token verification round-trips and fails closed.  verifyJWT of a
\* token generateJWT made for identifier x returns a payload with sub = x
\* while the clock is before the token's exp; for a token past its exp, a
\* token the server's secret did not sign, or a malformed input, it returns
\* null; it never throws.
C21_VerifyRoundTrip ==
  \A v \in Verifications :
    LET call == verifications[v]
        exp == call.token.payload.exp * MsPerSecond
    IN /\ (ServerSigned(v) /\ call.clock < exp)
          => /\ IsSome(call.result)
             /\ Val(call.result) = call.token.payload
             /\ Val(call.result).sub = call.issuedFor
       /\ (ServerSigned(v) /\ call.clock > exp) => call.result = None
       /\ ~ServerSigned(v) => call.result = None
       /\ call.result = None \/ Val(call.result).sub \in Fingerprints

\* One token was verified inside its lifetime and again after it.
C21_Witness ==
  \E v \in Verifications, w \in Verifications :
    /\ ServerSigned(v)
    /\ verifications[w].token = verifications[v].token
    /\ IsSome(verifications[v].result)
    /\ verifications[w].result = None
    /\ verifications[w].clock >
         verifications[w].token.payload.exp * MsPerSecond

SessionReads == 1..Len(sessionReads)

\* C30: server session lifetime.  A session created at time t has
\* expiresAt = t + 3600000; getUserSession returns the session it read only
\* when the clock it reads is not past expiresAt; when it finds
\* expiresAt < now it destroys the session and returns null; while no
\* session is stored every getUserSession returns null, and only a
\* successful authenticate request stores one.
C30_Step ==
  /\ IsSome(session')
     => /\ Val(session').expiresAt =
             Val(session').authenticatedAt + SessionLifetime * MsPerSecond
        /\ Val(session').authenticatedAt <= now'
  /\ \A c \in 1..Len(sessionReads') :
       LET call == sessionReads'[c]
       IN call.pc = "done"
          => /\ IsSome(call.result)
                => /\ call.result = call.userData
                   /\ call.clock <= Val(call.result).expiresAt
             /\ (IsSome(call.userData) /\ ~IsSome(call.result))
                => /\ Val(call.userData).expiresAt < call.clock
                   /\ call.destroyed
             /\ ~IsSome(call.userData)
                => (~IsSome(call.result) /\ ~call.destroyed)
  \* the call that finds the session expired leaves none behind
  /\ \A c \in SessionReads :
       ( /\ sessionReads[c].pc = "get" /\ sessionReads'[c].pc = "done"
         /\ IsSome(sessionReads[c].userData)
         /\ Val(sessionReads[c].userData).expiresAt < now )
       => (session' = None /\ sessionReads'[c].result = None)
  \* a call that starts while no session is stored returns null
  /\ (Len(sessionReads') > Len(sessionReads) /\ ~IsSome(session))
     => ~IsSome(sessionReads'[Len(sessionReads')].userData)
  \* only a successful authenticate request stores a session
  /\ (session' # session /\ IsSome(session'))
     => \E r \in Requests :
          /\ IsAuth(r) /\ ~IsDone(reqs[r]) /\ reqs'[r].status = 200
          /\ Val(session').fingerprint = reqs[r].fingerprint
          /\ Val(session').authenticatedAt = now'

C30_SessionLifetime == [][C30_Step]_vars

\* One call returned the session, and a later call found it expired,
\* destroyed it and returned null.
C30_Witness ==
  /\ Len(sessionReads) = 2
  /\ IsSome(sessionReads[1].result)
  /\ sessionReads[2].pc = "done"
  /\ sessionReads[2].destroyed
  /\ ~IsSome(sessionReads[2].result)
  /\ ~IsSome(session)

\* C31: a server session for fingerprint X is stored only by an authenticate
\* request for X whose signature passed verification, and only after that
\* request's token was generated; once POST /api/logout has answered, the
\* session is gone, and every getUserSession call that starts before the
\* next successful authenticate reads no session and returns null (so
\* isAuthenticated, which is getUserSession(...) !== null, returns false).
C31_Step ==
  \* a session comes from a verified authenticate, after its token
  /\ (session' # session /\ IsSome(session'))
     => \E r \in Requests :
          /\ IsAuth(r) /\ reqs[r].pc = "a_deleted" /\ reqs'[r].status = 200
          /\ Val(session').fingerprint = reqs[r].fingerprint
          /\ Val(reqs[r].signature) \in
               ValidSignatures(Val(reqs[r].user).publicKey,
                               Val(reqs[r].challenge))
          /\ IsSome(reqs'[r].jwt)
          /\ Val(reqs'[r].jwt).sub = Val(session').fingerprint
          /\ Val(reqs'[r].jwt).iat * MsPerSecond
               <= Val(session').authenticatedAt
          /\ (Val(reqs'[r].jwt).exp - JwtLifetime) * MsPerSecond
               <= Val(session').authenticatedAt
  \* the session is gone when logout has answered, until an authenticate
  \* succeeds
  /\ loggedOut' => ~IsSome(session')
  /\ (loggedOut /\ ~loggedOut')
     => \E r \in Requests :
          IsAuth(r) /\ ~IsDone(reqs[r]) /\ reqs'[r].status = 200
  \* a call that starts after the logout reads nothing and returns null
  /\ (loggedOut /\ Len(sessionReads') > Len(sessionReads))
     => ~IsSome(sessionReads'[Len(sessionReads')].userData)
  /\ \A c \in SessionReads :
       ( /\ sessionReads[c].pc = "get" /\ sessionReads'[c].pc = "done"
         /\ ~IsSome(sessionReads[c].userData) )
       => (~IsSome(sessionReads'[c].result) /\ session' = session)

C31_SessionFollowsAuthentication == [][C31_Step]_vars

\* A session was stored, a logout answered, and a getUserSession call made
\* after it returned null.
C31_Witness ==
  /\ loggedOut
  /\ \E r \in Requests : IsAuth(r) /\ Answered(r, 200)
  /\ \E c \in SessionReads :
       /\ sessionReads[c].pc = "done"
       /\ ~IsSome(sessionReads[c].userData)
       /\ ~IsSome(sessionReads[c].result)

\* C32: client token store consistency.  After setJwt(j), getJwt() returns
\* j until the next setJwt or clearJwt, a reload of the page included; after
\* clearJwt(), getJwt() returns null and authenticatedFetch throws without
\* sending a request; right after a setJwt the in-memory value and the
\* sessionStorage entry 'jwt' are both j, and right after a clearJwt both
\* are absent.
C32_Step ==
  /\ GetJwt(page').currentJwt = page'.retained
  /\ (page'.retained # page.retained
        \/ page'.sessionStorage # page.sessionStorage)
     => /\ page'.currentJwt = page'.retained
        /\ page'.sessionStorage = page'.retained
  /\ Len(page'.sent) > Len(page.sent)
     => LET f == page'.sent[Len(page'.sent)]
        IN IF IsSome(page.retained)
           THEN f.authorization = Some(<< "Bearer", Val(page.retained) >>)
           ELSE f.threw /\ ~f.requested /\ ~IsSome(f.authorization)

CharRequests == 1..Len(charReqs)

\* C33: the character endpoints are gated by the server session.  A
\* request whose getUserSession returns null (no session, or one past its
\* expiresAt) is answered 401 'Unauthorized' and has read and changed
\* nothing in the collection; no other request is answered 401; every
\* character a request reads, creates or deletes has the userId of the
\* session its getUserSession returned.
C33_Step ==
  /\ \A r \in CharRequests :
       (charReqs[r].pc = "session" /\ charReqs'[r].pc # "session")
       => IF \/ ~IsSome(charReqs[r].userData)
             \/ Val(charReqs[r].userData).expiresAt < now
          THEN /\ charReqs'[r].status = 401
               /\ charReqs'[r].error = "Unauthorized"
               /\ charReqs'[r].pc = "done"
               /\ charReqs'[r].touched = {}
               /\ ~IsSome(charReqs'[r].signedIn)
               /\ characters' = characters
          ELSE /\ charReqs'[r].status # 401
               /\ charReqs'[r].signedIn = charReqs[r].userData
  /\ \A r \in 1..Len(charReqs') :
       /\ ~IsSome(charReqs'[r].signedIn) => charReqs'[r].touched = {}
       /\ \A i \in charReqs'[r].touched :
            characters'[i].userId = Val(charReqs'[r].signedIn).fingerprint
  /\ characters' # characters
     => \E r \in CharRequests :
          /\ charReqs[r].pc = "write" /\ charReqs'[r].pc = "done"
          /\ IsSome(charReqs[r].signedIn)
          /\ \A i \in 1..Len(characters') :
               (i > Len(characters) \/ characters'[i] # characters[i])
               => /\ characters'[i].userId =
                       Val(charReqs[r].signedIn).fingerprint
                  /\ i \in charReqs'[r].touched

ActiveIn(docs, userId, slot) ==
  { i \in 1..Len(docs) : /\ docs[i].userId = userId
                         /\ docs[i].slot = slot
                         /\ docs[i].deletedAt = None }

\* C34: slot uniqueness.  After any interleaving of create and delete
\* requests each (user, slot) with slot in 0..3 has at most one active
\* character; a create request whose slot holds an active character of its
\* user when the request is decided is answered 409 'Slot already occupied'
\* and inserts nothing, two concurrent creates of one slot included.
C34_Step ==
  /\ \A f \in Fingerprints, slot \in Slots :
       Cardinality(ActiveIn(characters', f, slot)) <= 1
  /\ \A r \in CharRequests :
       ( /\ charReqs[r].kind = "POST"
         /\ charReqs[r].pc \in {"find", "write"}
         /\ charReqs'[r].pc = "done"
         /\ ActiveIn(characters, Val(charReqs[r].userData).fingerprint,
                     Val(Val(charReqs[r].body).slot).n) # {} )
       => /\ charReqs'[r].status = 409
          /\ charReqs'[r].error = "Slot already occupied"
          /\ characters' = characters

C34_SlotUniqueness == [][C34_Step]_vars

\* The first half of C34 alone: at most one active character per slot.
C34_OneActivePerSlot ==
  \A f \in Fingerprints, slot \in Slots :
    Cardinality(ActiveIn(characters, f, slot)) <= 1

\* C35: soft delete.  A DELETE is answered 200 only for a character that is
\* active and owned by the session user when it is deleted, and that sets
\* its deletedAt; a deletedAt, once set, never changes; GET returns active
\* characters only; a create for a slot with no active character of the
\* user succeeds, the slot of a deleted character included; a DELETE of a
\* character that is deleted or another user's is answered 404 and changes
\* nothing.
C35_Step ==
  /\ \A r \in CharRequests :
       ( /\ charReqs[r].kind = "DELETE" /\ charReqs[r].pc = "write"
         /\ charReqs'[r].status = 200 )
       => LET c == Val(charReqs[r].found)
          IN /\ characters[c].deletedAt = None
             /\ characters[c].userId = Val(charReqs[r].userData).fingerprint
             /\ characters'[c].deletedAt # None
  /\ \A i \in 1..Len(characters) :
       characters[i].deletedAt # None
       => characters'[i].deletedAt = characters[i].deletedAt
  /\ \A r \in CharRequests :
       ( /\ charReqs[r].kind = "GET" /\ charReqs[r].pc = "find"
         /\ charReqs'[r].pc = "done" )
       => \A k \in 1..Len(charReqs'[r].returned) :
            characters[charReqs'[r].returned[k]].deletedAt = None
  /\ \A r \in CharRequests :
       ( /\ charReqs[r].kind = "POST"
         /\ charReqs[r].pc \in {"find", "write"}
         /\ charReqs'[r].pc = "done"
         /\ ActiveIn(characters, Val(charReqs[r].userData).fingerprint,
                     Val(Val(charReqs[r].body).slot).n) = {} )
       => /\ charReqs'[r].status = 201
          /\ Len(characters') = Len(characters) + 1
  /\ \A r \in CharRequests :
       ( /\ charReqs[r].kind = "DELETE" /\ charReqs[r].pc = "find"
         /\ charReqs'[r].pc # "find"
         /\ LET c == Val(charReqs[r].id).n
            IN \/ c > Len(characters)
               \/ characters[c].deletedAt # None
               \/ characters[c].userId
                    # Val(charReqs[r].userData).fingerprint )
       => /\ charReqs'[r].status = 404
          /\ charReqs'[r].error = "Character not found"
          /\ characters' = characters

C35_SoftDelete == [][C35_Step]_vars

Connects == 1..Len(connects)

\* C36: connection caching.  Over any number of connectToDatabase calls in
\* one process, calls that start before the first connect has finished
\* included, at most one MongoClient is created, every call that returns
\* returns the same Db, and initializeCollections has completed
\* successfully before any call returns the Db.
C36_ConnectionCaching ==
  /\ mongo.clients <= 1
  /\ \A c \in Connects, d \in Connects :
       (connects[c].pc = "done" /\ connects[d].pc = "done")
       => connects[c].result = connects[d].result
  /\ \A c \in Connects :
       connects[c].pc = "done" => connects[c].initialized

====
